---- MODULE Spec2Model ----
(***************************************************************************)
(* Loop Profiler: the Feedback Store (src/feedback_manager.py) as a state  *)
(* machine.  The store's document self.data is a dict holding the list     *)
(* "feedbacks" of record dicts and the dict "statistics"; Python dicts are *)
(* objects, so the list and the per-track cache hold REFERENCES to record  *)
(* dicts (modelled by a heap), and statistics["model_performance"] is a    *)
(* reference to a nested dict (modelled by a second heap).                 *)
(***************************************************************************)
EXTENDS Integers, Sequences, FiniteSets, TLC

\* ------------------------------------------------------------------ bounds
MaxFeedbacks == 2
MaxExportCount == 2
MaxExportOps == 2
MaxLoads == 2          \* result loads, each starting a worker
MaxExtracts == 4       \* extract calls that decode audio
MaxTimers == 2         \* retrain timers pending at a time
MaxSamples == 11       \* records in the store the scorer is trained from
ProbaSteps == 2        \* a class probability is a multiple of 1/ProbaSteps

\* ------------------------------------------------------- optional values
\* Python None is the empty tuple, a present value v is <<v>>.
None == <<>>
Some(v) == <<v>>

\* ------------------------------------------------------------ the inputs
AudioPaths == {"a.mp3", "dir/a.mp3", "b.mp3"}
DefaultFeatures == [amplitude_smoothness |-> 870, spectral_similarity |-> 920,
                    tempo_consistency |-> 780, loudness_matching |-> 890]
\* the add_feedback calls the environment makes (scores and features in thousandths)
AddCalls ==
    {[audio_path |-> "a.mp3", loop_start |-> 0, loop_end |-> 44100,
      features |-> DefaultFeatures, rating |-> 1, pymusiclooper_score |-> 900,
      audio_metadata |-> None, exported |-> FALSE, export_settings |-> None,
      source |-> "thumbs_up"],
     [audio_path |-> "dir/a.mp3", loop_start |-> 264600, loop_end |-> 1323000,
      features |-> DefaultFeatures, rating |-> 0, pymusiclooper_score |-> 956,
      audio_metadata |-> None, exported |-> FALSE, export_settings |-> None,
      source |-> "thumbs_down"],
     [audio_path |-> "b.mp3", loop_start |-> 0, loop_end |-> 44100,
      features |-> DefaultFeatures, rating |-> 2, pymusiclooper_score |-> 900,
      audio_metadata |-> None, exported |-> TRUE, export_settings |-> Some("mp3"),
      source |-> "export"]}
AiScores == {90}
Confidences == {9}
MinAiScores == {-10, 0, 90, 95}
ExportSettingsInputs == {Some("mp3")}
Times == {1}
PerfInputs == {[accuracy |-> 90, precision |-> 80, recall |-> 70, training_samples |-> 10]}
MutatedValues == {7}
FeedbackIds == 1..(MaxFeedbacks + 1)

\* object identities of record dicts and of model_performance dicts
Oids == 1..(MaxFeedbacks + MaxFeedbacks)
PerfRefs == {1}
NoObj == [free |-> TRUE]

VARIABLES
    feedbacks,      \* self.data["feedbacks"]: list of references to record dicts
    heap,           \* record dict objects, by reference
    statistics,     \* self.data["statistics"]; model_performance is None or a reference
    perfHeap,       \* model_performance dict objects, by reference
    cache,          \* self._cache: audio_hash -> list of references
    disk,           \* the content of self.filepath
    ret,            \* the last call and what it returned to the caller
    before,         \* the counters as they were when the last call started
    hist,           \* adds: add_feedback calls made while nothing was deleted;
                    \* deleted: a delete_feedback has removed a record;
                    \* max_id: the largest id add_feedback has returned
    proc,           \* the process that owns the store: where it stands, the shape
                    \* of self.data, the save it is in, the document it first reset from
    backup,         \* the content of self.filepath.with_suffix('.json.backup')
    samples,        \* the records of the store the scorer is trained from, in order
    is_trained,     \* MLPredictor.is_trained
    model,          \* MLPredictor.model, the classifier object
    model_file,     \* the content of MLPredictor.model_path
    mret,           \* the last scorer-side call and what it returned
    timers,         \* QTimer.singleShot(100, _retrain_model_async) timers not yet fired
    burst,          \* the feedback events recorded since no retrain was pending, and
                    \* the train executions they have triggered
    fcache,         \* FeatureExtractor.cache_dir: the text of each cache file, by key
    work,           \* how often extract has decoded audio and run a feature calculation
    first,          \* per cache key, what the first cached extract call returned
    eret,           \* the last extract call and its outcome
    track,          \* IntegratedLoopProfiler.audio_path and the sample rate of its
                    \* BASS stream (info.freq; 0 when there is no stream)
    candidates,     \* IntegratedLoopProfiler.candidates
    list_items,     \* the items of the displayed list, IntegratedLoopProfiler.list
    workers,        \* the FeatureExtractionWorker threads started, oldest first; the
                    \* last one is self.feature_worker
    oret,           \* the last orchestrator event
    threads,        \* per thread of the application: the function it runs, the
                    \* store mutations that function has still to make, whether
                    \* it is inside the first of them, the workers it starts
    ai_ready        \* IntegratedLoopProfiler.feedback_manager is not None

storeVars == <<feedbacks, heap, statistics, perfHeap, cache, disk, ret, before, hist>>
fileVars == <<proc, backup>>
scorerVars == <<samples, is_trained, model, model_file, mret>>
retrainVars == <<timers, burst>>
extractorVars == <<fcache, work, first, eret>>
workerVars == <<track, candidates, list_items, workers, oret>>
threadVars == <<threads, ai_ready>>
vars == <<storeVars, fileVars, scorerVars, retrainVars, extractorVars, workerVars, threadVars>>

\* ---------------------------------------------------------------- helpers
\* Path(filepath).name
PathName(path) ==
    CASE path = "a.mp3" -> "a.mp3"
      [] path = "dir/a.mp3" -> "a.mp3"
      [] path = "b.mp3" -> "b.mp3"
      [] path = "bad.mp3" -> "bad.mp3"

\* hashlib.md5(filename).hexdigest()[:16]
_hash_file(path) ==
    CASE PathName(path) = "a.mp3" -> "bb4917e83bda7d17"
      [] PathName(path) = "b.mp3" -> "f27e906f4cf82fbe"

AudioHashes == {_hash_file(p) : p \in AudioPaths}

_get_default_metadata ==
    [duration_ms |-> 0, sample_rate |-> 44100, channels |-> 2, bitrate_kbps |-> None]

\* slip: the times are rounded to the nearest millisecond
_create_loop_candidate_info_Rounded(start, end, sr) ==
    LET start_ms == (start * 1000 + sr \div 2) \div sr
        end_ms == (end * 1000 + sr \div 2) \div sr
    IN [start_sample |-> start, end_sample |-> end,
        start_time_ms |-> start_ms, end_time_ms |-> end_ms,
        loop_duration_ms |-> end_ms - start_ms]

_create_loop_candidate_info(start, end, sr) ==
    LET start_ms == (start * 1000) \div sr
        end_ms == (end * 1000) \div sr
    IN [start_sample |-> start, end_sample |-> end,
        start_time_ms |-> start_ms, end_time_ms |-> end_ms,
        loop_duration_ms |-> end_ms - start_ms]

_create_empty_data_statistics ==
    [total_feedbacks |-> 0, positive_count |-> 0, negative_count |-> 0,
     exported_count |-> 0, total_export_operations |-> 0,
     last_model_training |-> None, model_performance |-> None]

\* the record the i-th list entry refers to
Rec(i) == heap[feedbacks[i]]

\* the records a list of references refers to
Deref(refs) == [i \in 1..Len(refs) |-> heap[refs[i]]]

\* slip: after a loop without a match the loop variable (the last entry) is used
FirstIndex_LastOnMiss(fbs, h, feedback_id) ==
    LET hits == {i \in 1..Len(fbs) : h[fbs[i]].id = feedback_id}
    IN IF hits = {} THEN Len(fbs) ELSE CHOOSE i \in hits : \A j \in hits : i <= j

\* index of the first list entry whose id is feedback_id, 0 when the loop ends
\* without a match (for fb in self.data["feedbacks"]: if fb["id"] == feedback_id)
FirstIndex(fbs, h, feedback_id) ==
    LET hits == {i \in 1..Len(fbs) : h[fbs[i]].id = feedback_id}
    IN IF hits = {} THEN 0 ELSE CHOOSE i \in hits : \A j \in hits : i <= j

\* list.pop(i)
Pop(s, i) == [k \in 1..(Len(s) - 1) |-> IF k < i THEN s[k] ELSE s[k + 1]]

\* references held by the cache
CachedOids(c) ==
    UNION {IF c[h] = None THEN {} ELSE {c[h][1][i] : i \in 1..Len(c[h][1])} : h \in DOMAIN c}

\* objects no list and no cache entry refers to are reclaimed
Collect(h, fbs, c) ==
    [o \in Oids |-> IF o \in {fbs[i] : i \in 1..Len(fbs)} \cup CachedOids(c)
                    THEN h[o] ELSE NoObj]

FreeOids(h) == {o \in Oids : h[o] = NoObj}
NewOid(h) == CHOOSE o \in FreeOids(h) : \A p \in FreeOids(h) : o <= p

\* the statistics dict with the nested dict written out (what json.dumps walks)
DeepStatistics(st, ph) ==
    [st EXCEPT !.model_performance =
        IF st.model_performance = None THEN None ELSE Some(ph[st.model_performance[1]])]

\* self.data as a value: the document, references written out
Document(fbs, h, st, ph) ==
    [version |-> "1.0", created_at |-> 1, app_version |-> "2.0.0",
     feedbacks |-> [i \in 1..Len(fbs) |-> h[fbs[i]]],
     statistics |-> DeepStatistics(st, ph),
     metadata |-> [system_info |-> "system"]]

\* ------------------------------------------------------------------- JSON
\* JSON text is modelled by the value tree it denotes: null, true/false,
\* numbers, strings, arrays and objects.  Timestamps are isoformat strings.
JNull == [j |-> "null"]
JBool(b) == [j |-> IF b THEN "true" ELSE "false"]
JNum(n) == [j |-> "number", v |-> n]
JStr(x) == [j |-> "string", v |-> x]
JArr(items) == [j |-> "array", items |-> items]
JObj(members) == [j |-> "object", members |-> members]
JOptNum(x) == IF x = None THEN JNull ELSE JNum(x[1])
JOptStr(x) == IF x = None THEN JNull ELSE JStr(x[1])

PyBool(x) == x.j = "true"
PyOpt(x) == IF x.j = "null" THEN None ELSE Some(x.v)

\* json.dumps of one record dict
DumpFeedback(fb) ==
    JObj([id |-> JNum(fb.id),
          audio_file |-> JStr(fb.audio_file),
          audio_hash |-> JStr(fb.audio_hash),
          audio_metadata |-> JObj([duration_ms |-> JNum(fb.audio_metadata.duration_ms),
                                   sample_rate |-> JNum(fb.audio_metadata.sample_rate),
                                   channels |-> JNum(fb.audio_metadata.channels),
                                   bitrate_kbps |-> JOptNum(fb.audio_metadata.bitrate_kbps)]),
          loop_candidate |-> JObj([start_sample |-> JNum(fb.loop_candidate.start_sample),
                                   end_sample |-> JNum(fb.loop_candidate.end_sample),
                                   start_time_ms |-> JNum(fb.loop_candidate.start_time_ms),
                                   end_time_ms |-> JNum(fb.loop_candidate.end_time_ms),
                                   loop_duration_ms |-> JNum(fb.loop_candidate.loop_duration_ms)]),
          scores |-> JObj([pymusiclooper |-> JNum(fb.scores.pymusiclooper),
                           ai_predicted |-> JOptNum(fb.scores.ai_predicted),
                           ai_confidence |-> JOptNum(fb.scores.ai_confidence)]),
          features |-> JObj([amplitude_smoothness |-> JNum(fb.features.amplitude_smoothness),
                             spectral_similarity |-> JNum(fb.features.spectral_similarity),
                             tempo_consistency |-> JNum(fb.features.tempo_consistency),
                             loudness_matching |-> JNum(fb.features.loudness_matching)]),
          user_feedback |-> JObj([rating |-> JNum(fb.user_feedback.rating),
                                  explicit |-> JBool(fb.user_feedback.explicit),
                                  source |-> JStr(fb.user_feedback.source)]),
          export_info |-> JObj([exported |-> JBool(fb.export_info.exported),
                                export_count |-> JNum(fb.export_info.export_count),
                                last_export_at |-> JOptStr(fb.export_info.last_export_at),
                                export_settings |-> JOptStr(fb.export_info.export_settings)]),
          timestamps |-> JObj([created_at |-> JStr(fb.timestamps.created_at),
                               updated_at |-> JStr(fb.timestamps.updated_at)])])

DumpPerformance(x) ==
    IF x = None THEN JNull
    ELSE JObj([accuracy |-> JNum(x[1].accuracy), precision |-> JNum(x[1].precision),
               recall |-> JNum(x[1].recall),
               training_samples |-> JNum(x[1].training_samples)])

DumpStatistics(st) ==
    JObj([total_feedbacks |-> JNum(st.total_feedbacks),
          positive_count |-> JNum(st.positive_count),
          negative_count |-> JNum(st.negative_count),
          exported_count |-> JNum(st.exported_count),
          total_export_operations |-> JNum(st.total_export_operations),
          last_model_training |-> JOptStr(st.last_model_training),
          model_performance |-> DumpPerformance(st.model_performance)])

\* json.dumps(self.data, indent=2, ensure_ascii=False)
json_dumps(doc) ==
    JObj([version |-> JStr(doc.version),
          created_at |-> JStr(doc.created_at),
          app_version |-> JStr(doc.app_version),
          feedbacks |-> JArr([i \in 1..Len(doc.feedbacks) |-> DumpFeedback(doc.feedbacks[i])]),
          statistics |-> DumpStatistics(doc.statistics),
          metadata |-> JObj([system_info |-> JStr(doc.metadata.system_info)])])

\* json.loads of one record object
LoadFeedback(x) ==
    LET m == x.members
    IN [id |-> m.id.v,
        audio_file |-> m.audio_file.v,
        audio_hash |-> m.audio_hash.v,
        audio_metadata |-> [duration_ms |-> m.audio_metadata.members.duration_ms.v,
                            sample_rate |-> m.audio_metadata.members.sample_rate.v,
                            channels |-> m.audio_metadata.members.channels.v,
                            bitrate_kbps |-> PyOpt(m.audio_metadata.members.bitrate_kbps)],
        loop_candidate |-> [start_sample |-> m.loop_candidate.members.start_sample.v,
                            end_sample |-> m.loop_candidate.members.end_sample.v,
                            start_time_ms |-> m.loop_candidate.members.start_time_ms.v,
                            end_time_ms |-> m.loop_candidate.members.end_time_ms.v,
                            loop_duration_ms |-> m.loop_candidate.members.loop_duration_ms.v],
        scores |-> [pymusiclooper |-> m.scores.members.pymusiclooper.v,
                    ai_predicted |-> PyOpt(m.scores.members.ai_predicted),
                    ai_confidence |-> PyOpt(m.scores.members.ai_confidence)],
        features |-> [amplitude_smoothness |-> m.features.members.amplitude_smoothness.v,
                      spectral_similarity |-> m.features.members.spectral_similarity.v,
                      tempo_consistency |-> m.features.members.tempo_consistency.v,
                      loudness_matching |-> m.features.members.loudness_matching.v],
        user_feedback |-> [rating |-> m.user_feedback.members.rating.v,
                           explicit |-> PyBool(m.user_feedback.members.explicit),
                           source |-> m.user_feedback.members.source.v],
        export_info |-> [exported |-> PyBool(m.export_info.members.exported),
                         export_count |-> m.export_info.members.export_count.v,
                         last_export_at |-> PyOpt(m.export_info.members.last_export_at),
                         export_settings |-> PyOpt(m.export_info.members.export_settings)],
        timestamps |-> [created_at |-> m.timestamps.members.created_at.v,
                        updated_at |-> m.timestamps.members.updated_at.v]]

LoadPerformance(x) ==
    IF x.j = "null" THEN None
    ELSE Some([accuracy |-> x.members.accuracy.v, precision |-> x.members.precision.v,
               recall |-> x.members.recall.v,
               training_samples |-> x.members.training_samples.v])

LoadStatistics(x) ==
    LET m == x.members
    IN [total_feedbacks |-> m.total_feedbacks.v,
        positive_count |-> m.positive_count.v,
        negative_count |-> m.negative_count.v,
        exported_count |-> m.exported_count.v,
        total_export_operations |-> m.total_export_operations.v,
        last_model_training |-> PyOpt(m.last_model_training),
        model_performance |-> LoadPerformance(m.model_performance)]

\* slip: arrays come back in reverse order
LoadArray_Reversed(items) == [i \in 1..Len(items) |-> LoadFeedback(items[Len(items) + 1 - i])]

\* a JSON array of record objects becomes a list, in order
LoadArray(items) == [i \in 1..Len(items) |-> LoadFeedback(items[i])]

\* json.loads of a text that denotes a store document
json_loads(text) ==
    LET m == text.members
    IN [version |-> m.version.v,
        created_at |-> m.created_at.v,
        app_version |-> m.app_version.v,
        feedbacks |-> LoadArray(m.feedbacks.items),
        statistics |-> LoadStatistics(m.statistics),
        metadata |-> [system_info |-> m.metadata.members.system_info.v]]

NoFile == [exists |-> FALSE]
\* the file after write_text(text)
File(text) == [exists |-> TRUE, text |-> text]

\* slip: only the record list is serialised, the statistics are written as created
save_RecordsOnly(fbs, h, st, ph) ==
    File(json_dumps(Document(fbs, h, _create_empty_data_statistics, ph)))

\* save(): write_text of json.dumps of the whole document
save(fbs, h, st, ph) == File(json_dumps(Document(fbs, h, st, ph)))

\* _create_empty_data(): the document of a store that holds nothing
_create_empty_data ==
    [version |-> "1.0", created_at |-> 1, app_version |-> "2.0.0",
     feedbacks |-> <<>>, statistics |-> _create_empty_data_statistics,
     metadata |-> [system_info |-> "system"]]

\* the documents something other than save() can leave in the file: bytes that
\* are not UTF-8, text that is not JSON, JSON that is not the store's object
Undecodable == [j |-> "undecodable"]
Garbage(k) == [j |-> "garbage", v |-> k]
Foreign == JArr(<<>>)
\* what an interrupted write_text leaves: the first `written` chunks of `of`
Partial(of, written) == [j |-> "truncated", written |-> written, of |-> of]
ForeignTexts == {Undecodable, Garbage(1), Garbage(2), Foreign}

\* the exception classes `except json.JSONDecodeError` catches
Caught == {"JSONDecodeError"}

\* _load(): what the constructor makes of the file. raised: the exception that
\* leaves __init__; copy_backup: shutil.copy(filepath, backup) ran; data: the
\* value bound to self.data (shape "store": a document, "foreign": another value)
_load(d) ==
    IF ~d.exists
    THEN [raised |-> "", copy_backup |-> FALSE, shape |-> "store", data |-> _create_empty_data]
    ELSE LET error == CASE d.text.j = "undecodable" -> "UnicodeDecodeError"
                        [] d.text.j \in {"garbage", "truncated"} -> "JSONDecodeError"
                        [] OTHER -> ""
         IN CASE error = "" /\ d.text.j = "object" ->
                    [raised |-> "", copy_backup |-> FALSE, shape |-> "store",
                     data |-> json_loads(d.text)]
              [] error = "" /\ d.text.j # "object" ->
                    [raised |-> "", copy_backup |-> FALSE, shape |-> "foreign",
                     data |-> _create_empty_data]
              [] error # "" /\ error \in Caught ->
                    [raised |-> "", copy_backup |-> TRUE, shape |-> "store",
                     data |-> _create_empty_data]
              [] OTHER ->
                    [raised |-> error, copy_backup |-> FALSE, shape |-> "none",
                     data |-> _create_empty_data]

Counters(st) == <<st.total_feedbacks, st.positive_count, st.negative_count>>


\* ------------------------------------------------- the extractor's inputs
\* the audio files extract is called on: two different tracks with the same
\* file name, and a file librosa cannot decode
ExtractPaths == {"a.mp3", "dir/a.mp3", "bad.mp3"}
Decodable(audio_path) == audio_path # "bad.mp3"
\* the sample rate the orchestrator passes (info.freq)
SampleRate == 44100
\* len(y): every track is 10 s long
TrackLength(sr) == 10 * sr
\* loop candidates <<loop_start, loop_end>>: one inside the track, one past its end
Loops == {<<44100, 352800>>, <<2000000, 2100000>>}
FeatureNames == {"amplitude_smoothness", "spectral_similarity",
                 "tempo_consistency", "loudness_matching"}
\* the feature calculations in which something raises during one extract call
FaultSets == {{}, {"amplitude_smoothness"}, {"spectral_similarity"},
              {"spectral_similarity", "tempo_consistency", "loudness_matching"}}

\* _get_cache_key: md5 of "<file name>_<start>_<end>", first 16 hex digits; the
\* key is modelled by the triple the digest is taken of
_get_cache_key(audio_path, start, end) == <<PathName(audio_path), start, end>>
CacheKeys == {_get_cache_key(p, l[1], l[2]) : p \in ExtractPaths, l \in Loops}

\* the GUI thread and the QThread objects the window holds
Threads == {"gui", "feature_worker", "analysis_worker", "wave_worker"}
\* a thread that runs nothing: the GUI thread back in the event loop, a
\* worker not started or finished
Idle == [fn |-> "", calls |-> <<>>, inside |-> FALSE, starts |-> {}]

\* ------------------------------------------------------------------ Init
\* RandomForestClassifier(n_estimators=50, max_depth=5, random_state=42), not fitted
RandomForestClassifier == [fitted |-> FALSE]

\* a constructed store whose self.data has the store's structure, not saving
Running == [state |-> "running", shape |-> "store", saving |-> None, reset_from |-> None]

\* FeedbackManager(filepath) on a path with no file: _load returns
\* _create_empty_data(), nothing is written, the cache is empty.
EmptyCache == [h \in AudioHashes |-> None]

Init ==
    /\ feedbacks = <<>>
    /\ heap = [o \in Oids |-> NoObj]
    /\ statistics = _create_empty_data_statistics
    /\ perfHeap = [r \in PerfRefs |-> NoObj]
    /\ cache = EmptyCache
    /\ disk = NoFile
    /\ ret = [op |-> "__init__", found |-> "nofile", raised |-> ""]
    /\ before = Counters(_create_empty_data_statistics)
    /\ hist = [adds |-> 0, deleted |-> FALSE, max_id |-> 0]
    /\ proc = Running
    /\ backup = NoFile
    /\ samples = <<>>
    /\ is_trained = FALSE
    /\ model = RandomForestClassifier
    /\ model_file = NoFile
    /\ mret = [op |-> "__init__"]
    /\ timers = 0
    /\ burst = [events |-> 0, trains |-> 0]
    /\ fcache = [k \in CacheKeys |-> NoFile]
    /\ work = [decodes |-> 0, calcs |-> 0]
    /\ first = [k \in CacheKeys |-> None]
    /\ eret = [op |-> "__init__"]
    /\ candidates = <<>>
    /\ list_items = <<>>
    /\ track = [audio_path |-> "", freq |-> 0]
    /\ workers = <<>>
    /\ oret = [op |-> "__init__"]
    /\ threads = [t \in Threads |-> Idle]
    /\ ai_ready = FALSE

\* ------------------------------------------------------------ add_feedback
\* slip: the id is the list length before the append
NewFeedbackId_ZeroBased(fbs) == Len(fbs)

\* feedback_id = len(self.data["feedbacks"]) + 1
NewFeedbackId(fbs) == Len(fbs) + 1

\* the record dict add_feedback builds
NewFeedback(c, feedback_id, now) ==
    LET audio_metadata == IF c.audio_metadata = None THEN _get_default_metadata
                          ELSE c.audio_metadata[1]
        sample_rate == audio_metadata.sample_rate
    IN [id |-> feedback_id,
        audio_file |-> PathName(c.audio_path),
        audio_hash |-> _hash_file(c.audio_path),
        audio_metadata |-> audio_metadata,
        loop_candidate |-> _create_loop_candidate_info(c.loop_start, c.loop_end, sample_rate),
        scores |-> [pymusiclooper |-> c.pymusiclooper_score,
                    ai_predicted |-> None, ai_confidence |-> None],
        features |-> c.features,
        user_feedback |-> [rating |-> c.rating,
                           explicit |-> c.source \in {"thumbs_up", "thumbs_down"},
                           source |-> c.source],
        export_info |-> [exported |-> c.exported,
                         export_count |-> IF c.exported THEN 1 ELSE 0,
                         last_export_at |-> IF c.exported THEN Some(now) ELSE None,
                         export_settings |-> c.export_settings],
        timestamps |-> [created_at |-> now, updated_at |-> now]]

\* slip: only rating 0 counts as negative
_update_statistics_OnlyZero(st, rating, exported) ==
    LET s1 == [st EXCEPT !.total_feedbacks = @ + 1]
        s2 == IF rating = 1 THEN [s1 EXCEPT !.positive_count = @ + 1]
              ELSE IF rating = 0 THEN [s1 EXCEPT !.negative_count = @ + 1]
              ELSE s1
    IN IF exported
       THEN [s2 EXCEPT !.exported_count = @ + 1, !.total_export_operations = @ + 1]
       ELSE s2

_update_statistics(st, rating, exported) ==
    LET s1 == [st EXCEPT !.total_feedbacks = @ + 1]
        s2 == IF rating = 1 THEN [s1 EXCEPT !.positive_count = @ + 1]
              ELSE [s1 EXCEPT !.negative_count = @ + 1]
    IN IF exported
       THEN [s2 EXCEPT !.exported_count = @ + 1, !.total_export_operations = @ + 1]
       ELSE s2

\* slip: the cache is left as it is
CacheClear_Forgotten(c) == c

\* self._cache.clear()
CacheClear(c) == EmptyCache

AddFeedback(c, now) ==
    /\ Len(feedbacks) < MaxFeedbacks
    /\ c.exported => statistics.total_export_operations < MaxExportOps
    /\ FreeOids(heap) # {}
    /\ LET feedback_id == NewFeedbackId(feedbacks)
           o == NewOid(heap)
           fbs == Append(feedbacks, o)
           h == [heap EXCEPT ![o] = NewFeedback(c, feedback_id, now)]
           st == _update_statistics(statistics, c.rating, c.exported)
           ch == CacheClear(cache)
       IN /\ feedbacks' = fbs
          /\ statistics' = st
          /\ disk' = save(fbs, h, st, perfHeap)
          /\ cache' = ch
          /\ heap' = Collect(h, fbs, ch)
          /\ ret' = [op |-> "add_feedback", result |-> feedback_id]
          /\ hist' = [adds |-> IF hist.deleted THEN 0 ELSE hist.adds + 1,
                      deleted |-> hist.deleted,
                      max_id |-> IF feedback_id > hist.max_id THEN feedback_id ELSE hist.max_id]
    /\ before' = Counters(statistics)
    /\ UNCHANGED perfHeap

\* --------------------------------------------------------- update_ai_score
UpdateAiScore(feedback_id, ai_score, confidence, now) ==
    LET i == FirstIndex(feedbacks, heap, feedback_id)
    IN /\ IF i # 0
          THEN LET o == feedbacks[i]
                   h == [heap EXCEPT ![o].scores.ai_predicted = Some(ai_score),
                                     ![o].scores.ai_confidence = Some(confidence),
                                     ![o].timestamps.updated_at = now]
               IN /\ heap' = h
                  /\ disk' = save(feedbacks, h, statistics, perfHeap)
                  /\ ret' = [op |-> "update_ai_score", feedback_id |-> feedback_id,
                             result |-> TRUE]
          ELSE /\ UNCHANGED <<heap, disk>>
               /\ ret' = [op |-> "update_ai_score", feedback_id |-> feedback_id,
                          result |-> FALSE]
       /\ before' = Counters(statistics)
       /\ UNCHANGED <<feedbacks, statistics, perfHeap, cache, hist>>

\* ------------------------------------------------------ update_export_info
\* slip: every export counts as a first export
FirstExport_Always(export_count) == export_count >= 1

\* if export_info["export_count"] == 1 (read after the increment)
FirstExport(export_count) == export_count = 1

UpdateExportInfo(feedback_id, export_settings, now1, now2) ==
    LET i == FirstIndex(feedbacks, heap, feedback_id)
    IN /\ IF i # 0
          THEN LET o == feedbacks[i]
                   h == [heap EXCEPT ![o].export_info.exported = TRUE,
                                     ![o].export_info.export_count = @ + 1,
                                     ![o].export_info.last_export_at = Some(now1),
                                     ![o].export_info.export_settings = export_settings,
                                     ![o].timestamps.updated_at = now2]
                   s1 == IF FirstExport(h[o].export_info.export_count)
                         THEN [statistics EXCEPT !.exported_count = @ + 1]
                         ELSE statistics
                   st == [s1 EXCEPT !.total_export_operations = @ + 1]
               IN /\ heap[o].export_info.export_count < MaxExportCount
                  /\ statistics.total_export_operations < MaxExportOps
                  /\ heap' = h
                  /\ statistics' = st
                  /\ disk' = save(feedbacks, h, st, perfHeap)
                  /\ ret' = [op |-> "update_export_info", feedback_id |-> feedback_id,
                             result |-> TRUE]
          ELSE /\ UNCHANGED <<heap, statistics, disk>>
               /\ ret' = [op |-> "update_export_info", feedback_id |-> feedback_id,
                          result |-> FALSE]
       /\ before' = Counters(statistics)
       /\ UNCHANGED <<feedbacks, perfHeap, cache, hist>>

\* --------------------------------------------------------- delete_feedback
DeleteFeedback(feedback_id) ==
    LET i == FirstIndex(feedbacks, heap, feedback_id)
    IN /\ IF i # 0
          THEN LET removed == heap[feedbacks[i]]
                   fbs == Pop(feedbacks, i)
                   rating == removed.user_feedback.rating
                   s1 == IF rating = 1
                         THEN [statistics EXCEPT !.positive_count = @ - 1]
                         ELSE [statistics EXCEPT !.negative_count = @ - 1]
                   st == [s1 EXCEPT !.total_feedbacks = @ - 1]
                   ch == CacheClear(cache)
               IN /\ feedbacks' = fbs
                  /\ statistics' = st
                  /\ disk' = save(fbs, heap, st, perfHeap)
                  /\ cache' = ch
                  /\ heap' = Collect(heap, fbs, ch)
                  /\ ret' = [op |-> "delete_feedback", feedback_id |-> feedback_id,
                             result |-> TRUE]
                  /\ hist' = [hist EXCEPT !.deleted = TRUE, !.adds = 0]
          ELSE /\ UNCHANGED <<feedbacks, heap, statistics, disk, cache, hist>>
               /\ ret' = [op |-> "delete_feedback", feedback_id |-> feedback_id,
                          result |-> FALSE]
       /\ before' = Counters(statistics)
       /\ UNCHANGED perfHeap

\* ------------------------------------------------------------ get_by_audio
\* [fb for fb in self.data["feedbacks"] if fb["audio_hash"] == audio_hash]
RECURSIVE MatchingRefs(_, _, _)
MatchingRefs(fbs, h, audio_hash) ==
    IF fbs = <<>> THEN <<>>
    ELSE IF h[Head(fbs)].audio_hash = audio_hash
         THEN <<Head(fbs)>> \o MatchingRefs(Tail(fbs), h, audio_hash)
         ELSE MatchingRefs(Tail(fbs), h, audio_hash)

\* the cache after get_by_audio looked the hash up
CacheLookup(c, fbs, h, audio_hash) ==
    IF c[audio_hash] = None
    THEN [c EXCEPT ![audio_hash] = Some(MatchingRefs(fbs, h, audio_hash))]
    ELSE c

\* the records get_by_audio(audio_path) returns when called in this state
get_by_audio(audio_path) ==
    LET audio_hash == _hash_file(audio_path)
    IN Deref(CacheLookup(cache, feedbacks, heap, audio_hash)[audio_hash][1])

GetByAudio(audio_path) ==
    LET audio_hash == _hash_file(audio_path)
    IN /\ cache' = CacheLookup(cache, feedbacks, heap, audio_hash)
       /\ ret' = [op |-> "get_by_audio", audio_hash |-> audio_hash,
                  result |-> get_by_audio(audio_path)]
       /\ before' = Counters(statistics)
       /\ UNCHANGED <<feedbacks, heap, statistics, perfHeap, disk, hist>>

\* --------------------------------------------------------------- get_by_id
\* the record, or None when the loop ends without a match
get_by_id(feedback_id) ==
    LET i == FirstIndex(feedbacks, heap, feedback_id)
    IN IF i = 0 THEN None ELSE Some(Rec(i))

\* ---------------------------------------------------------- get_good_loops
\* fb["scores"].get("ai_predicted", 0): the key is always present, so the
\* default 0 is never used and a record without a prediction yields None.
ScoresGetAiPredicted(fb) == fb.scores.ai_predicted

\* The comprehension evaluates rating == 1 first and only then the comparison;
\* None >= min_ai_score raises TypeError, which ends the whole call.
get_good_loops(min_ai_score) ==
    LET all == Deref(feedbacks)
        raises == \E i \in 1..Len(all) :
                      /\ all[i].user_feedback.rating = 1
                      /\ ScoresGetAiPredicted(all[i]) = None
        keep(fb) == /\ fb.user_feedback.rating = 1
                    /\ ScoresGetAiPredicted(fb)[1] >= min_ai_score
    IN IF raises THEN [raised |-> "TypeError"]
       ELSE [raised |-> "", value |-> SelectSeq(all, keep)]

\* ---------------------------------------------------------- get_statistics
\* self.data["statistics"].copy(): a new dict with the same values; the value
\* of "model_performance" is the same reference the store holds.
DictCopy(st) == st

GetStatistics ==
    /\ ret' = [op |-> "get_statistics", result |-> DictCopy(statistics)]
    /\ before' = Counters(statistics)
    /\ UNCHANGED <<feedbacks, heap, statistics, perfHeap, cache, disk, hist>>

\* The caller assigns to the dict get_statistics returned: either to a key of
\* the returned dict itself or to a key of the nested dict it refers to.
MutateReturned(nested, v) ==
    /\ ret.op \in {"get_statistics", "mutate_returned"}
    /\ IF nested
       THEN /\ ret.result.model_performance # None
            /\ perfHeap' = [perfHeap EXCEPT ![ret.result.model_performance[1]].accuracy = v]
            /\ ret' = [ret EXCEPT !.op = "mutate_returned"]
       ELSE /\ ret' = [op |-> "mutate_returned",
                       result |-> [ret.result EXCEPT !.total_feedbacks = v]]
            /\ UNCHANGED perfHeap
    /\ UNCHANGED <<feedbacks, heap, statistics, cache, disk, before, hist>>

\* ------------------------------------------------ update_model_performance
\* The dict literal is a new object; the one it replaces is unreferenced once
\* the assignment is done (the caller's last result is gone by then).
UpdateModelPerformance(perf, now) ==
    LET r == CHOOSE x \in PerfRefs : \A y \in PerfRefs : x <= y
        ph == [x \in PerfRefs |-> IF x = r THEN perf ELSE NoObj]
        st == [statistics EXCEPT !.model_performance = Some(r),
                                 !.last_model_training = Some(now)]
    IN /\ perfHeap' = ph
       /\ statistics' = st
       /\ disk' = save(feedbacks, heap, st, ph)
       /\ ret' = [op |-> "update_model_performance"]
       /\ before' = Counters(statistics)
       /\ UNCHANGED <<feedbacks, heap, cache, hist>>

\* -------------------------------------------------------------------- Next
Next ==
    \/ \E c \in AddCalls, now \in Times : AddFeedback(c, now) /\ UNCHANGED <<fileVars, scorerVars, retrainVars, extractorVars, workerVars, threadVars>>
    \/ \E id \in FeedbackIds, s \in AiScores, cf \in Confidences, now \in Times :
           UpdateAiScore(id, s, cf, now) /\ UNCHANGED <<fileVars, scorerVars, retrainVars, extractorVars, workerVars, threadVars>>
    \/ \E id \in FeedbackIds, es \in ExportSettingsInputs, now1 \in Times, now2 \in Times :
           UpdateExportInfo(id, es, now1, now2) /\ UNCHANGED <<fileVars, scorerVars, retrainVars, extractorVars, workerVars, threadVars>>
    \/ \E id \in FeedbackIds : DeleteFeedback(id) /\ UNCHANGED <<fileVars, scorerVars, retrainVars, extractorVars, workerVars, threadVars>>
    \/ \E p \in AudioPaths : GetByAudio(p) /\ UNCHANGED <<fileVars, scorerVars, retrainVars, extractorVars, workerVars, threadVars>>
    \/ GetStatistics /\ UNCHANGED <<fileVars, scorerVars, retrainVars, extractorVars, workerVars, threadVars>>
    \/ \E nested \in BOOLEAN, v \in MutatedValues :
           MutateReturned(nested, v) /\ UNCHANGED <<fileVars, scorerVars, retrainVars, extractorVars, workerVars, threadVars>>
    \/ \E perf \in PerfInputs, now \in Times :
           UpdateModelPerformance(perf, now) /\ UNCHANGED <<fileVars, scorerVars, retrainVars, extractorVars, workerVars, threadVars>>

Spec == Init /\ [][Next]_vars

\* ------------------------------------------------ add_feedback, loop times
\* add_feedback calls over loop positions that are no whole milliseconds,
\* without metadata and with the metadata of a 48 kHz and an 8 kHz track
TimingCalls ==
    {[audio_path |-> "a.mp3", loop_start |-> start, loop_end |-> end,
      features |-> DefaultFeatures, rating |-> 1, pymusiclooper_score |-> 900,
      audio_metadata |-> md, exported |-> FALSE, export_settings |-> None,
      source |-> "thumbs_up"] :
        start \in {0, 1, 44, 22050}, end \in {44, 45, 22050, 44101},
        md \in {None} \cup {Some([duration_ms |-> 10000, sample_rate |-> sr, channels |-> 2,
                                  bitrate_kbps |-> None]) : sr \in {8000, 48000}}}

NextTiming ==
    \E c \in TimingCalls, now \in Times :
        /\ c.loop_start <= c.loop_end
        /\ AddFeedback(c, now)
        /\ UNCHANGED <<fileVars, scorerVars, retrainVars, extractorVars, workerVars, threadVars>>

SpecTiming == Init /\ [][NextTiming]_vars

\* ------------------------------------------- mutating calls whose save raises
\* what a save() that raises leaves in the file: the old text (json.dumps,
\* mkdir or open raised) or a truncated one (the write raised)
FailedSave(fbs, h, st, ph) ==
    {disk, File(Partial(save(fbs, h, st, ph).text, 0)),
     File(Partial(save(fbs, h, st, ph).text, 1))}

\* the file holds what the last save() of the store wrote, or the store is
\* new and nothing was saved yet; a save is let fail only then, so that one
\* failed write is outstanding at a time
FileInSync ==
    disk \in {NoFile, save(feedbacks, heap, statistics, perfHeap)}

\* add_feedback where self.save() raises: the record is appended and the
\* statistics are updated before save is called; self._cache.clear() and the
\* return are not reached
AddFeedbackSaveFails(c, now) ==
    /\ FileInSync
    /\ Len(feedbacks) < MaxFeedbacks
    /\ c.exported => statistics.total_export_operations < MaxExportOps
    /\ FreeOids(heap) # {}
    /\ LET feedback_id == NewFeedbackId(feedbacks)
           o == NewOid(heap)
           fbs == Append(feedbacks, o)
           h == [heap EXCEPT ![o] = NewFeedback(c, feedback_id, now)]
           st == _update_statistics(statistics, c.rating, c.exported)
       IN /\ feedbacks' = fbs
          /\ statistics' = st
          /\ disk' \in FailedSave(fbs, h, st, perfHeap)
          /\ heap' = Collect(h, fbs, cache)
          /\ hist' = [adds |-> IF hist.deleted THEN 0 ELSE hist.adds + 1,
                      deleted |-> hist.deleted,
                      max_id |-> IF feedback_id > hist.max_id THEN feedback_id ELSE hist.max_id]
    /\ ret' = [op |-> "add_feedback", raised |-> "OSError"]
    /\ before' = Counters(statistics)
    /\ UNCHANGED <<perfHeap, cache>>

\* delete_feedback of a stored id where self.save() raises: the record is
\* popped and the counters are decremented before save is called
DeleteFeedbackSaveFails(feedback_id) ==
    LET i == FirstIndex(feedbacks, heap, feedback_id)
    IN /\ FileInSync
       /\ i # 0
       /\ LET removed == heap[feedbacks[i]]
              fbs == Pop(feedbacks, i)
              rating == removed.user_feedback.rating
              s1 == IF rating = 1
                    THEN [statistics EXCEPT !.positive_count = @ - 1]
                    ELSE [statistics EXCEPT !.negative_count = @ - 1]
              st == [s1 EXCEPT !.total_feedbacks = @ - 1]
          IN /\ feedbacks' = fbs
             /\ statistics' = st
             /\ disk' \in FailedSave(fbs, heap, st, perfHeap)
             /\ heap' = Collect(heap, fbs, cache)
             /\ hist' = [hist EXCEPT !.deleted = TRUE, !.adds = 0]
       /\ ret' = [op |-> "delete_feedback", raised |-> "OSError"]
       /\ before' = Counters(statistics)
       /\ UNCHANGED <<perfHeap, cache>>

NextSaveFails ==
    \/ \E c \in AddCalls, now \in Times : AddFeedback(c, now) /\ UNCHANGED <<fileVars, scorerVars, retrainVars, extractorVars, workerVars, threadVars>>
    \/ \E p \in AudioPaths : GetByAudio(p) /\ UNCHANGED <<fileVars, scorerVars, retrainVars, extractorVars, workerVars, threadVars>>
    \/ \E c \in AddCalls, now \in Times :
           AddFeedbackSaveFails(c, now) /\ UNCHANGED <<fileVars, scorerVars, retrainVars, extractorVars, workerVars, threadVars>>
    \/ \E id \in FeedbackIds :
           DeleteFeedbackSaveFails(id) /\ UNCHANGED <<fileVars, scorerVars, retrainVars, extractorVars, workerVars, threadVars>>

SpecSaveFails == Init /\ [][NextSaveFails]_vars

\* ------------------------------------------- the store file and its process
\* The process owning the store can be stopped and started again on the same
\* path; between two processes the file can be changed from outside. save() is
\* Path.write_text: open(mode='w') truncates the file, write() puts the text,
\* close() flushes it.
StoreUsable == proc.state = "running" /\ proc.shape = "store"

\* save(), public call, first step: open for writing truncates the file
SaveOpen ==
    /\ StoreUsable
    /\ LET text == save(feedbacks, heap, statistics, perfHeap).text
       IN /\ proc' = [proc EXCEPT !.state = "save_opened",
                                  !.saving = Some([old |-> disk, new |-> File(text)])]
          /\ disk' = File(Partial(text, 0))
    /\ ret' = [op |-> "save"]
    /\ UNCHANGED <<feedbacks, heap, statistics, perfHeap, cache, before, hist, backup>>

\* save(): a first part of the text reaches the file
SaveWritePart ==
    /\ proc.state = "save_opened"
    /\ proc' = [proc EXCEPT !.state = "save_partial"]
    /\ disk' = File(Partial(proc.saving[1].new.text, 1))
    /\ UNCHANGED <<feedbacks, heap, statistics, perfHeap, cache, ret, before, hist, backup>>

\* save(): the rest of the text is written, the file is closed, save returns
SaveClose ==
    /\ proc.state \in {"save_opened", "save_partial"}
    /\ proc' = [proc EXCEPT !.state = "running", !.saving = None]
    /\ disk' = proc.saving[1].new
    /\ UNCHANGED <<feedbacks, heap, statistics, perfHeap, cache, ret, before, hist, backup>>

\* the process stops (exit, kill, power loss): its memory is gone, the files stay
Stop ==
    /\ proc.state \in {"running", "save_opened", "save_partial"}
    /\ proc' = [proc EXCEPT !.state = "stopped", !.shape = "none"]
    /\ feedbacks' = <<>>
    /\ heap' = [o \in Oids |-> NoObj]
    /\ statistics' = _create_empty_data_statistics
    /\ perfHeap' = [r \in PerfRefs |-> NoObj]
    /\ cache' = EmptyCache
    /\ ret' = [op |-> "stop"]
    /\ before' = Counters(_create_empty_data_statistics)
    /\ hist' = [adds |-> 0, deleted |-> FALSE, max_id |-> 0]
    /\ UNCHANGED <<disk, backup>>

\* while no process runs, the file is replaced by something save() did not write
Damage(text) ==
    /\ proc.state = "stopped"
    /\ disk # File(text)
    /\ disk' = File(text)
    /\ proc' = [proc EXCEPT !.saving = None]
    /\ ret' = [op |-> "damage"]
    /\ UNCHANGED <<feedbacks, heap, statistics, perfHeap, cache, before, hist, backup>>

\* FeedbackManager(filepath) in a new process: self.data = self._load()
Start ==
    /\ proc.state \in {"stopped", "failed"}
    /\ LET loaded == _load(disk)
           found == IF disk.exists THEN disk.text.j ELSE "nofile"
           n == Len(loaded.data.feedbacks)
           mp == loaded.data.statistics.model_performance
           r == CHOOSE x \in PerfRefs : \A y \in PerfRefs : x <= y
       IN /\ ret' = [op |-> "__init__", found |-> found, raised |-> loaded.raised]
          /\ IF loaded.raised # ""
             THEN /\ proc' = [proc EXCEPT !.state = "failed", !.saving = None]
                  /\ UNCHANGED <<feedbacks, heap, statistics, perfHeap, backup>>
             ELSE /\ proc' = [state |-> "running", shape |-> loaded.shape, saving |-> None,
                              reset_from |-> IF loaded.copy_backup /\ proc.reset_from = None
                                             THEN Some(disk.text)
                                             ELSE proc.reset_from]
                  /\ backup' = IF loaded.copy_backup THEN disk ELSE backup
                  /\ feedbacks' = [i \in 1..n |-> i]
                  /\ heap' = [o \in Oids |-> IF o <= n THEN loaded.data.feedbacks[o]
                                              ELSE NoObj]
                  /\ statistics' = [loaded.data.statistics EXCEPT !.model_performance =
                                        IF mp = None THEN None ELSE Some(r)]
                  /\ perfHeap' = [x \in PerfRefs |-> IF mp # None /\ x = r THEN mp[1]
                                                     ELSE NoObj]
    /\ UNCHANGED <<cache, disk, before, hist>>

\* add_feedback on a store whose self.data is not the store's dict:
\* self.data["feedbacks"] raises (l.97)
AddFeedbackOnForeign ==
    /\ proc.state = "running"
    /\ proc.shape = "foreign"
    /\ ret' = [op |-> "raise", call |-> "add_feedback", error |-> "TypeError"]
    /\ UNCHANGED <<feedbacks, heap, statistics, perfHeap, cache, disk, before, hist,
                   proc, backup>>

\* the add_feedback calls made while the file is watched
FileAddCalls == {c \in AddCalls : c.source = "thumbs_up"}

NextFiles ==
    \/ \E c \in FileAddCalls, now \in Times :
           StoreUsable /\ AddFeedback(c, now) /\ UNCHANGED <<fileVars, scorerVars, retrainVars, extractorVars, workerVars, threadVars>>
    \/ \E id \in FeedbackIds :
           StoreUsable /\ DeleteFeedback(id) /\ UNCHANGED <<fileVars, scorerVars, retrainVars, extractorVars, workerVars, threadVars>>
    \/ SaveOpen /\ UNCHANGED <<scorerVars, retrainVars, extractorVars, workerVars, threadVars>>
    \/ SaveWritePart /\ UNCHANGED <<scorerVars, retrainVars, extractorVars, workerVars, threadVars>>
    \/ SaveClose /\ UNCHANGED <<scorerVars, retrainVars, extractorVars, workerVars, threadVars>>
    \/ Stop /\ UNCHANGED <<scorerVars, retrainVars, extractorVars, workerVars, threadVars>>
    \/ \E text \in ForeignTexts : Damage(text) /\ UNCHANGED <<scorerVars, retrainVars, extractorVars, workerVars, threadVars>>
    \/ Start /\ UNCHANGED <<scorerVars, retrainVars, extractorVars, workerVars, threadVars>>
    \/ AddFeedbackOnForeign /\ UNCHANGED <<scorerVars, retrainVars, extractorVars, workerVars, threadVars>>

SpecFiles == Init /\ [][NextFiles]_vars

\* ------------------------------------------------------------ the scorer
\* MLPredictor (ml_predictor.py) and the store calls that feed it. The store is
\* reduced to its record list here: get_training_data reads nothing else.
MIN_TRAINING_SAMPLES == 10

\* get_training_data(): one row [pymusiclooper, amplitude_smoothness,
\* spectral_similarity, tempo_consistency, loudness_matching] and one label
\* (the rating) per record, in store order
get_training_data(records) ==
    LET \* fb["features"] is None (it has no keys): features.get raises
        null == {i \in 1..Len(records) : DOMAIN records[i].features = {}}
    IN IF null # {}
       THEN [raised |-> "AttributeError", X |-> <<>>, y |-> <<>>]
       ELSE [raised |-> "",
             X |-> [i \in 1..Len(records) |->
                       <<records[i].scores.pymusiclooper,
                         records[i].features.amplitude_smoothness,
                         records[i].features.spectral_similarity,
                         records[i].features.tempo_consistency,
                         records[i].features.loudness_matching>>],
             y |-> [i \in 1..Len(records) |-> records[i].user_feedback.rating]]

\* the feature vectors predict is asked about (thousandths)
FeatureVectors == {<<900, 800, 850, 700, 800>>}

\* how a train call can fail once it is past the sample check: fit raises on
\* its input validation (before it touches the classifier), fit raises while
\* the trees are built (classes_ is set and estimators_ emptied by then), or
\* _save_model raises on the file
TrainFaults == {"none", "fit", "fit_partway", "save"}

\* classes_ of a fitted classifier: the distinct labels of y, ascending
Classes(y) ==
    LET labels == {y[i] : i \in 1..Len(y)}
    IN CHOOSE cs \in [1..Cardinality(labels) -> labels] :
           \A i, j \in 1..Cardinality(labels) : i < j => cs[i] < cs[j]

\* p[1] + ... + p[n]
RECURSIVE SumTo(_, _)
SumTo(p, n) == IF n = 0 THEN 0 ELSE p[n] + SumTo(p, n - 1)

\* the rows predict_proba can give for k classes, k <= 2: one probability per
\* class, in units of 1/ProbaSteps, adding up to 1
Distributions(k) ==
    {p \in [1..k -> 0..ProbaSteps] : SumTo(p, k) = ProbaSteps}

\* the classifiers fit(X, y) can leave: classes_ from y, and for each feature
\* vector the row predict_proba answers; what the forest learns is not modelled
Fitted(y) ==
    {[fitted |-> TRUE, classes |-> Classes(y), proba |-> pr, estimators |-> "all"] :
        pr \in [FeatureVectors -> Distributions(Len(Classes(y)))]}

\* the classifier object after a fit(X, y) that raised while building its
\* trees: the attributes fit sets first are those of the new data, no tree is
\* there, predict_proba has no row to give
HalfFitted(y) ==
    [fitted |-> TRUE, classes |-> Classes(y),
     proba |-> [f \in FeatureVectors |-> <<>>], estimators |-> "none"]

\* pickle.dump(self.model, f) and pickle.load(f)
Pickle(m) == [pickled |-> m]
Unpickle(blob) == blob.pickled
\* a model file whose write was cut short
CutShort == [cut |-> TRUE]
\* a model file holding bytes that are no pickle
Scrambled == [cut |-> FALSE]

\* slip: only an empty training set is refused
TooFew_OnlyEmpty(X) == Len(X) = 0

\* slip: the threshold itself is refused
TooFew_AtMost(X) == Len(X) <= MIN_TRAINING_SAMPLES

\* len(X) < self.MIN_TRAINING_SAMPLES
TooFew(X) == Len(X) < MIN_TRAINING_SAMPLES

\* slip: the flag is assigned the outcome of the fit
FlagAfterFit_Assigned(fit_returned, was_trained) == fit_returned

\* self.is_trained = True comes right after fit and is skipped when fit raises
FlagAfterFit(fit_returned, was_trained) == fit_returned \/ was_trained

\* slip: the first column is taken
ai_score_FirstColumn(proba) == proba[1] * 100

\* ai_score = proba[1] * 100 (Python counts columns from 0), in units of
\* 1/ProbaSteps
ai_score(proba) == proba[2] * 100

\* confidence = max(proba)
confidence(proba) == CHOOSE m \in {proba[i] : i \in 1..Len(proba)} :
                         \A i \in 1..Len(proba) : proba[i] <= m

\* predict(features): the pair returned, None for null
predict(trained, m, features) ==
    IF ~trained THEN [score |-> None, confidence |-> None]
    ELSE IF ~m.fitted \/ m.estimators = "none"
         THEN [score |-> None, confidence |-> None]     \* predict_proba raises, caught
         ELSE LET \* the forest answers every vector: one that is not enumerated
                  \* in FeatureVectors gets the row of an enumerated one
                  proba == m.proba[IF features \in DOMAIN m.proba THEN features
                                   ELSE CHOOSE f \in DOMAIN m.proba : TRUE]
              IN IF Len(proba) < 2
                 THEN [score |-> None, confidence |-> None]     \* IndexError, caught
                 ELSE [score |-> Some(ai_score(proba)),
                       confidence |-> Some(confidence(proba))]

\* add_feedback as the scorer sees it: one more record. The judgments the
\* environment gives here are thumbs up, or one thumbs down as the first record.
AddSample(c, now) ==
    /\ Len(samples) < MaxSamples
    /\ c.rating \in {0, 1}
    /\ c.rating = 0 => samples = <<>>
    /\ samples' = Append(samples, NewFeedback(c, NewFeedbackId(samples), now))
    /\ mret' = [op |-> "add_feedback"]
    /\ UNCHANGED <<is_trained, model, model_file>>

\* delete_feedback of the newest record
DeleteSample ==
    /\ samples # <<>>
    /\ samples' = Pop(samples, Len(samples))
    /\ mret' = [op |-> "delete_feedback"]
    /\ UNCHANGED <<is_trained, model, model_file>>

\* X, y = get_training_data(); train(X, y)
Train(fault) ==
    LET data == get_training_data(samples)
    IN /\ IF TooFew(data.X)
          THEN /\ mret' = [op |-> "train", result |-> FALSE, fault |-> "none"]
               /\ UNCHANGED <<is_trained, model, model_file>>
          ELSE IF fault = "fit"
          THEN /\ mret' = [op |-> "train", result |-> FALSE, fault |-> fault]
               /\ is_trained' = FlagAfterFit(FALSE, is_trained)
               /\ UNCHANGED <<model, model_file>>
          ELSE IF fault = "fit_partway"
          THEN /\ mret' = [op |-> "train", result |-> FALSE, fault |-> fault]
               /\ is_trained' = FlagAfterFit(FALSE, is_trained)
               /\ model' = HalfFitted(data.y)
               /\ UNCHANGED model_file
          ELSE \E m \in Fitted(data.y) :
                   /\ model' = m
                   /\ is_trained' = FlagAfterFit(TRUE, is_trained)
                   /\ IF fault = "save"
                      THEN /\ model_file' \in {model_file, File(CutShort)}
                           /\ mret' = [op |-> "train", result |-> FALSE, fault |-> fault]
                      ELSE /\ model_file' = File(Pickle(m))
                           /\ mret' = [op |-> "train", result |-> TRUE, fault |-> fault]
       /\ UNCHANGED samples

Predict(features) ==
    /\ mret' = [op |-> "predict", features |-> features,
                result |-> predict(is_trained, model, features)]
    /\ UNCHANGED <<samples, is_trained, model, model_file>>

\* slip: every training set is evaluated
TooFewToEvaluate_Never(X) == FALSE

\* len(X) < 5
TooFewToEvaluate(X) == Len(X) < 5

\* cv_folds = min(5, len(X))
cv_folds(X) == IF Len(X) < 5 THEN Len(X) ELSE 5

\* evaluate(X, y): the dict returned. The metric values are what scikit-learn
\* computes and are not modelled; the except branch gives an error dict too.
evaluate(trained, m, X, y) ==
    IF ~trained THEN [error |-> "Model not trained"]
    ELSE IF TooFewToEvaluate(X) THEN [error |-> "Not enough samples for evaluation"]
    ELSE IF m.estimators = "none" THEN [error |-> "predict raised"]
    ELSE [error |-> "", metrics |-> {"accuracy", "accuracy_std", "precision", "recall"},
          cv |-> cv_folds(X), n_samples |-> Len(X)]

\* X, y = get_training_data(); evaluate(X, y). cross_val_score fits clones and
\* self.model.predict reads the model, so nothing of the scorer changes
Evaluate ==
    LET data == get_training_data(samples)
    IN /\ mret' = [op |-> "evaluate", result |-> evaluate(is_trained, model, data.X, data.y)]
       /\ UNCHANGED <<samples, is_trained, model, model_file>>

GetFeatureImportance ==
    /\ mret' = [op |-> "get_feature_importance",
                result |-> IF is_trained THEN "feature_importances_" ELSE "None"]
    /\ UNCHANGED <<samples, is_trained, model, model_file>>

\* pickle.load(f) raises on this file content
Unloadable(file) == file.text = CutShort \/ file.text = Scrambled

\* slip: a model file that exists counts as a trained model
_load_model_TrustsFile(file) ==
    IF file.exists
    THEN [is_trained |-> TRUE,
          model |-> IF Unloadable(file) THEN RandomForestClassifier ELSE Unpickle(file.text)]
    ELSE [is_trained |-> FALSE, model |-> RandomForestClassifier]

\* _load_model(): the flag and the classifier a new MLPredictor ends up with.
\* Without a file nothing is done; a failing pickle.load leaves the fresh
\* classifier of __init__ in place and is_trained False.
_load_model(file) ==
    IF file.exists /\ ~Unloadable(file)
    THEN [is_trained |-> TRUE, model |-> Unpickle(file.text)]
    ELSE [is_trained |-> FALSE, model |-> RandomForestClassifier]

\* MLPredictor(model_path) again, a new instance on the same model file
NewPredictor ==
    /\ model' = _load_model(model_file).model
    /\ is_trained' = _load_model(model_file).is_trained
    /\ mret' = [op |-> "__init__"]
    /\ UNCHANGED <<samples, model_file>>

\* the model file is replaced from outside by bytes that are no pickle
DamageModel ==
    /\ model_file.exists
    /\ model_file # File(Scrambled)
    /\ model_file' = File(Scrambled)
    /\ mret' = [op |-> "damage"]
    /\ UNCHANGED <<samples, is_trained, model>>

\* the thumbs-up and thumbs-down calls of AddCalls
ScorerAddCalls == {c \in AddCalls : c.rating \in {0, 1}}

NextScorer ==
    \/ \E c \in ScorerAddCalls, now \in Times :
           AddSample(c, now) /\ UNCHANGED <<storeVars, fileVars, retrainVars, extractorVars, workerVars, threadVars>>
    \/ DeleteSample /\ UNCHANGED <<storeVars, fileVars, retrainVars, extractorVars, workerVars, threadVars>>
    \/ \E fault \in TrainFaults : Train(fault) /\ UNCHANGED <<storeVars, fileVars, retrainVars, extractorVars, workerVars, threadVars>>
    \/ \E features \in FeatureVectors :
           Predict(features) /\ UNCHANGED <<storeVars, fileVars, retrainVars, extractorVars, workerVars, threadVars>>
    \/ Evaluate /\ UNCHANGED <<storeVars, fileVars, retrainVars, extractorVars, workerVars, threadVars>>
    \/ GetFeatureImportance /\ UNCHANGED <<storeVars, fileVars, retrainVars, extractorVars, workerVars, threadVars>>
    \/ NewPredictor /\ UNCHANGED <<storeVars, fileVars, retrainVars, extractorVars, workerVars, threadVars>>
    \/ DamageModel /\ UNCHANGED <<storeVars, fileVars, retrainVars, extractorVars, workerVars, threadVars>>

SpecScorer == Init /\ [][NextScorer]_vars

\* ------------------------------------------------- retraining on feedback
\* IntegratedLoopProfiler._record_feedback: the feedback is added to the store
\* and QTimer.singleShot(100, self._retrain_model_async) is started.  burst
\* counts the feedback events since no retrain was pending, and the train
\* calls made for them.
_record_feedback(c, now) ==
    /\ timers < MaxTimers
    /\ AddSample(c, now)
    /\ timers' = timers + 1
    /\ burst' = IF timers = 0
                THEN [events |-> 1, trains |-> 0]
                ELSE [burst EXCEPT !.events = @ + 1]

\* one pending timer fires: _retrain_model_async, run by the event loop of
\* the GUI thread from start to end
_retrain_model_async(fault) ==
    /\ timers > 0
    /\ timers' = timers - 1
    /\ IF get_training_data(samples).raised # ""
       THEN \* nothing catches the exception: the callback ends before train
            /\ mret' = [op |-> "_retrain_model_async",
                        raised |-> get_training_data(samples).raised]
            /\ UNCHANGED <<samples, is_trained, model, model_file, burst>>
       ELSE IF Len(get_training_data(samples).X) >= MIN_TRAINING_SAMPLES
       THEN /\ Train(fault)
            /\ burst' = [burst EXCEPT !.trains = @ + 1]
       ELSE UNCHANGED <<scorerVars, burst>>

NextRetrain ==
    \/ \E c \in ScorerAddCalls, now \in Times :
           _record_feedback(c, now) /\ UNCHANGED <<storeVars, fileVars, extractorVars, workerVars, threadVars>>
    \/ \E fault \in TrainFaults :
           _retrain_model_async(fault) /\ UNCHANGED <<storeVars, fileVars, extractorVars, workerVars, threadVars>>

SpecRetrain == Init /\ [][NextRetrain]_vars

\* ------------------------------------------------------- the extractor
\* FeatureExtractor (feature_extractor.py); feature values in thousandths.
Max(a, b) == IF a > b THEN a ELSE b
Min(a, b) == IF a < b THEN a ELSE b

\* len(y[lo:hi]) for lo >= 0
SliceLen(len, lo, hi) == Max(0, Min(len, hi) - Min(len, lo))

\* slip: the spectral default needs both windows to be short
ReturnsDefault_BothShort(name, len, start, end, sr) ==
    LET boundary_samples == sr \div 5
        start_chunk == SliceLen(len, Max(0, start - boundary_samples),
                                start + boundary_samples)
        end_chunk == SliceLen(len, Max(0, end - boundary_samples),
                              Min(len, end + boundary_samples))
    IN CASE name \in {"amplitude_smoothness", "loudness_matching"} ->
                start_chunk = 0 \/ end_chunk = 0
         [] name = "spectral_similarity" -> start_chunk < 512 /\ end_chunk < 512
         [] name = "tempo_consistency" -> SliceLen(len, start, end) < sr * 2

\* a calculation returns its default 0.5 before it analyses anything: empty
\* chunks (amplitude, loudness), chunks under 512 samples (spectral), a loop
\* section under 2 s (tempo)
ReturnsDefault(name, len, start, end, sr) ==
    LET \* boundary_samples = int(sr * 0.2)
        boundary_samples == sr \div 5
        \* len(start_chunk), len(end_chunk): the samples around the loop boundaries
        start_chunk == SliceLen(len, Max(0, start - boundary_samples),
                                start + boundary_samples)
        end_chunk == SliceLen(len, Max(0, end - boundary_samples),
                              Min(len, end + boundary_samples))
    IN CASE name \in {"amplitude_smoothness", "loudness_matching"} ->
                start_chunk = 0 \/ end_chunk = 0
         [] name = "spectral_similarity" -> start_chunk < 512 \/ end_chunk < 512
         [] name = "tempo_consistency" -> SliceLen(len, start, end) < sr * 2

\* what the numpy/librosa analysis of a decodable track gives for a feature;
\* the signal processing itself is not modelled
Analysis(audio_path, name) ==
    (CASE name = "amplitude_smoothness" -> 870
       [] name = "spectral_similarity" -> 920
       [] name = "tempo_consistency" -> 780
       [] name = "loudness_matching" -> 890) + (IF audio_path = "a.mp3" THEN 0 ELSE 5)

\* the calculations that have an except branch of their own
Guarded == {"spectral_similarity", "tempo_consistency", "loudness_matching"}

\* the calculations of one call in which something raises: those of the
\* fault set that get past their default
Failing(call) ==
    {name \in call.faults :
        ~ReturnsDefault(name, TrackLength(call.sample_rate), call.loop_start,
                        call.loop_end, call.sample_rate)}

\* _calc_<name>(y, start, end, sr)
_calc(name, call) ==
    IF ReturnsDefault(name, TrackLength(call.sample_rate), call.loop_start,
                      call.loop_end, call.sample_rate)
    THEN 500
    ELSE IF name \in Failing(call) THEN 500
    ELSE Analysis(call.audio_path, name)

\* slip: the cache is never read
_load_cache_Never(cache_dir, key) == None

\* _load_cache: json.loads of the cache file of this key, None if there is no
\* file or it does not parse
_load_cache(cache_dir, key) ==
    IF cache_dir[key].exists /\ cache_dir[key].text.j = "object"
    THEN Some([name \in FeatureNames |-> cache_dir[key].text.members[name].v])
    ELSE None

\* _save_cache: the file of the key gets json.dumps(features, indent=2)
_save_cache(cache_dir, key, features) ==
    [cache_dir EXCEPT ![key] =
        File(JObj([name \in FeatureNames |-> JNum(features[name])]))]

\* extract(audio_path, loop_start, loop_end, sample_rate, use_cache): what is
\* raised (librosa.load fails on a file it cannot decode and on a target
\* rate of 0) or returned, the cache directory afterwards, and how often audio
\* was decoded and a _calc_ method entered
extract(cache_dir, call) ==
    LET key == _get_cache_key(call.audio_path, call.loop_start, call.loop_end)
        cached == IF call.use_cache THEN _load_cache(cache_dir, key) ELSE None
        features == [name \in FeatureNames |-> _calc(name, call)]
    IN IF cached # None
       THEN [raised |-> "", result |-> cached, cache |-> cache_dir,
             decodes |-> 0, calcs |-> 0, failed |-> {}]
       ELSE IF ~Decodable(call.audio_path) \/ call.sample_rate = 0
       THEN [raised |-> "decode", result |-> None, cache |-> cache_dir,
             decodes |-> 1, calcs |-> 0, failed |-> {}]
       ELSE IF Failing(call) \ Guarded # {}
       THEN [raised |-> "calculation", result |-> None, cache |-> cache_dir,
             decodes |-> 1, calcs |-> 1, failed |-> Failing(call) \ Guarded]
       ELSE [raised |-> "", result |-> Some(features),
             cache |-> IF call.use_cache THEN _save_cache(cache_dir, key, features) ELSE cache_dir,
             decodes |-> 1, calcs |-> 4, failed |-> Failing(call)]

Extract(call) ==
    LET out == extract(fcache, call)
        key == _get_cache_key(call.audio_path, call.loop_start, call.loop_end)
    IN /\ <<call.loop_start, call.loop_end>> \in Loops
       /\ work.decodes + out.decodes <= MaxExtracts
       /\ fcache' = out.cache
       /\ work' = [decodes |-> work.decodes + out.decodes, calcs |-> work.calcs + out.calcs]
       /\ first' = IF call.use_cache /\ out.raised = "" /\ first[key] = None
                   THEN [first EXCEPT ![key] = out.result]
                   ELSE first
       /\ eret' = [op |-> "extract", audio_path |-> call.audio_path, key |-> key,
                   use_cache |-> call.use_cache, raised |-> out.raised,
                   result |-> out.result, computed |-> out.decodes = 1,
                   failed |-> out.failed]

NextExtractor ==
    \E call \in [audio_path : ExtractPaths, loop_start : {l[1] : l \in Loops},
                 loop_end : {l[2] : l \in Loops}, sample_rate : {SampleRate},
                 use_cache : BOOLEAN, faults : FaultSets] :
        Extract(call) /\ UNCHANGED <<storeVars, fileVars, scorerVars, retrainVars, workerVars, threadVars>>

SpecExtractor == Init /\ [][NextExtractor]_vars

\* ------------------------------------------- the two guarded calculations
\* _calc_spectral_similarity and _calc_tempo_consistency on one decoded track,
\* at sample rates whose 400 ms window is under, at and over 512 samples, for
\* loop boundaries at the start, inside, at the end of and past the buffer
BoundaryCalls ==
    UNION {LET Positions == {0, 100, sr, 8 * sr, 10 * sr - 300, 10 * sr, 11 * sr}
           IN [audio_path : {"a.mp3"}, loop_start : Positions, loop_end : Positions,
               sample_rate : {sr}, use_cache : {FALSE},
               faults : {{}, {"spectral_similarity", "tempo_consistency"}}] :
           sr \in {1275, 1280, 44100}}

CalcBoundaries(call) ==
    /\ eret' = [op |-> "_calc", call |-> call,
                spectral_similarity |-> _calc("spectral_similarity", call),
                tempo_consistency |-> _calc("tempo_consistency", call)]
    /\ UNCHANGED <<fcache, work, first>>

NextBoundary ==
    \E call \in BoundaryCalls :
        CalcBoundaries(call) /\ UNCHANGED <<storeVars, fileVars, scorerVars, retrainVars, workerVars, threadVars>>

SpecBoundary == Init /\ [][NextBoundary]_vars

\* ------------------------------------------- result loading and the worker
\* the fields of a line of a result file, as line.split() gives them
IntField(n) == [t |-> "int", v |-> n]
DecField(n) == [t |-> "dec", v |-> n]
WordField == [t |-> "word"]

\* int(p): the value, None for ValueError; float(p) in thousandths likewise
py_int(p) == IF p.t = "int" THEN Some(p.v) ELSE None
py_float(p) == IF p.t = "int" THEN Some(p.v * 1000)
               ELSE IF p.t = "dec" THEN Some(p.v)
               ELSE None

\* lines of the files pymusiclooper exports: start, end, two differences, score
ResultFiles ==
    LET LineA == <<IntField(44100), IntField(352800), DecField(12), DecField(340), DecField(970)>>
        LineB == <<IntField(2000000), IntField(2100000), DecField(25), DecField(410), DecField(910)>>
        LineShort == <<WordField, WordField, WordField>>
        LineBadInt == <<DecField(44100), IntField(352800), DecField(12), DecField(340), DecField(970)>>
        LineBadConf == <<IntField(44100), IntField(352800), DecField(12), DecField(340), WordField>>
    IN {<<LineA>>, <<LineShort, LineA, LineBadInt, LineB>>, <<LineBadConf, LineB>>}

\* _create_list_item: the item of a candidate, None for the ZeroDivisionError
\* of c["s"] / c["f"]
_create_list_item(c) ==
    IF c.f = 0 THEN None
    ELSE Some([s |-> c.s, e |-> c.e, sc |-> c.sc, ai_score |-> c.ai_score])

\* one pass of the for loop of parse_and_fill
parse_line(p, freq, acc) ==
    IF Len(p) >= 5
    THEN IF py_int(p[1]) = None \/ py_int(p[2]) = None \/ py_float(p[5]) = None
         THEN acc
         ELSE LET c == [s |-> py_int(p[1])[1], e |-> py_int(p[2])[1],
                        sc |-> py_float(p[5])[1] * 100, f |-> freq,
                        ai_score |-> None, ai_confidence |-> None, features |-> None]
                  item == _create_list_item(c)
              IN [candidates |-> Append(acc.candidates, c),
                  list |-> IF item = None THEN acc.list ELSE Append(acc.list, item[1])]
    ELSE acc

RECURSIVE parse_lines(_, _, _)
parse_lines(lines, freq, acc) ==
    IF lines = <<>> THEN acc
    ELSE parse_lines(Tail(lines), freq, parse_line(Head(lines), freq, acc))

\* parse_and_fill(path): the list is cleared, candidates is a new list
parse_and_fill(lines, freq) ==
    parse_lines(lines, freq, [candidates |-> <<>>, list |-> <<>>])

\* slip: nothing is appended for a candidate extract raised on
OnExtractError_Drop(results, i) == results

\* the except branch of FeatureExtractionWorker.run: 0.5 for every feature
OnExtractError(results, i) ==
    Append(results, <<i, [name \in FeatureNames |-> 500]>>)

\* FeatureExtractionWorker(audio_path, candidates, sample_rate, extractor)
FeatureExtractionWorker(audio_path, cands, sample_rate) ==
    [audio_path |-> audio_path, candidates |-> cands, sample_rate |-> sample_rate,
     pos |-> 0, results |-> <<>>, causes |-> <<>>, state |-> "running"]

\* load_results: parse_and_fill(target), then a new worker is started on the
\* new candidate list and bound to self.feature_worker; AI is available
load_results(target) ==
    LET filled == parse_and_fill(target, track.freq)
    IN /\ Len(workers) < MaxLoads
       /\ candidates' = filled.candidates
       /\ list_items' = filled.list
       /\ workers' = Append(workers,
                            FeatureExtractionWorker(track.audio_path, filled.candidates,
                                                    track.freq))
       /\ oret' = [op |-> "load_results", target |-> target, freq |-> track.freq]

\* select_audio: the path is taken and load_audio_stream opens the stream;
\* with a stream, run_analysis(auto_check=True) loads the newest result file
\* of the track if there is one
SelectAudio(path, freq, target) ==
    /\ Len(workers) < MaxLoads
    /\ IF freq # 0 /\ target # None
       THEN LET filled == parse_and_fill(target[1], freq)
            IN /\ candidates' = filled.candidates
               /\ list_items' = filled.list
               /\ workers' = Append(workers,
                                    FeatureExtractionWorker(path, filled.candidates, freq))
               /\ oret' = [op |-> "load_results", target |-> target[1], freq |-> freq]
       ELSE /\ oret' = [op |-> "select_audio"]
            /\ UNCHANGED <<candidates, list_items, workers>>
    /\ track' = [audio_path |-> path, freq |-> freq]
    /\ UNCHANGED <<extractorVars>>

\* run_analysis from the analyze button: the results of the track, found on
\* disk or written by the analysis just run, are loaded
RunAnalysis(target) ==
    /\ track.audio_path # ""
    /\ load_results(target)
    /\ UNCHANGED <<track, extractorVars>>

\* one pass of the for loop of FeatureExtractionWorker.run, in the thread of
\* worker w
WorkerStep(w, faults) ==
    LET me == workers[w]
        c == me.candidates[me.pos + 1]
        call == [audio_path |-> me.audio_path, loop_start |-> c.s, loop_end |-> c.e,
                 sample_rate |-> me.sample_rate, use_cache |-> TRUE, faults |-> faults]
        out == extract(fcache, call)
        cause == IF out.raised # "" THEN out.raised
                 ELSE IF out.decodes = 0 THEN "cached"
                 ELSE IF out.failed # {} THEN "caught"
                 ELSE "computed"
    IN /\ me.state = "running"
       /\ me.pos < Len(me.candidates)
       /\ Extract(call)
       /\ workers' = [workers EXCEPT ![w] =
              [me EXCEPT !.pos = @ + 1,
                         !.results = IF out.raised = ""
                                     THEN Append(@, <<me.pos, out.result[1]>>)
                                     ELSE OnExtractError(@, me.pos),
                         !.causes = Append(@, cause)]]
       /\ UNCHANGED <<track, candidates, list_items, oret>>

\* the loop of worker w is over: finished.emit(results), queued to the GUI thread
WorkerFinish(w) ==
    /\ workers[w].state = "running"
    /\ workers[w].pos = Len(workers[w].candidates)
    /\ workers' = [workers EXCEPT ![w].state = "emitted"]
    /\ UNCHANGED <<track, candidates, list_items, oret, extractorVars>>

\* _get_ai_prediction
_get_ai_prediction(c) ==
    IF ~is_trained \/ c.features = None
    THEN [score |-> None, confidence |-> None]
    ELSE predict(is_trained, model,
                 <<c.sc \div 100, c.features[1].amplitude_smoothness,
                   c.features[1].spectral_similarity, c.features[1].tempo_consistency,
                   c.features[1].loudness_matching>>)

\* one pass of the for loop of _on_features_extracted, idx counted from 0;
\* raised is set where the pass leaves the loop by an exception
apply_result(st, idx, features) ==
    IF idx >= Len(st.candidates)
    THEN [st EXCEPT !.raised = "IndexError"]
    ELSE LET c0 == [st.candidates[idx + 1] EXCEPT !.features = Some(features)]
             p == _get_ai_prediction(c0)
             c == [c0 EXCEPT !.ai_score = p.score, !.ai_confidence = p.confidence]
             cands == [st.candidates EXCEPT ![idx + 1] = c]
             \* list.takeItem(idx)
             taken == IF idx < Len(st.list)
                      THEN SubSeq(st.list, 1, idx) \o SubSeq(st.list, idx + 2, Len(st.list))
                      ELSE st.list
             item == _create_list_item(c)
             \* list.insertItem(idx, new_item)
             at == Min(idx, Len(taken))
         IN IF item = None
            THEN [candidates |-> cands, list |-> taken, raised |-> "ZeroDivisionError"]
            ELSE [candidates |-> cands,
                  list |-> SubSeq(taken, 1, at) \o <<item[1]>> \o SubSeq(taken, at + 1, Len(taken)),
                  raised |-> ""]

RECURSIVE apply_results(_, _)
apply_results(st, results) ==
    IF results = <<>> \/ st.raised # "" THEN st
    ELSE apply_results(apply_result(st, Head(results)[1], Head(results)[2]), Tail(results))

\* _on_features_extracted(results), the slot of the finished signal of worker
\* w, run by the GUI thread on the candidates it holds then
_on_features_extracted(w) ==
    LET st == apply_results([candidates |-> candidates, list |-> list_items, raised |-> ""],
                            workers[w].results)
    IN /\ workers[w].state = "emitted"
       /\ workers' = [workers EXCEPT ![w].state = "delivered"]
       /\ candidates' = st.candidates
       /\ list_items' = st.list
       /\ oret' = [op |-> "_on_features_extracted", worker |-> w, raised |-> st.raised]
       /\ UNCHANGED <<track, extractorVars>>

NextWorker ==
    \/ \E path \in {"a.mp3", "bad.mp3"}, freq \in {0, SampleRate}, target \in {None} \cup {Some(f) : f \in ResultFiles} :
           SelectAudio(path, freq, target) /\ UNCHANGED <<storeVars, fileVars, scorerVars, retrainVars, threadVars>>
    \/ \E target \in ResultFiles :
           RunAnalysis(target) /\ UNCHANGED <<storeVars, fileVars, scorerVars, retrainVars, threadVars>>
    \/ \E w \in 1..Len(workers), faults \in FaultSets :
           WorkerStep(w, faults) /\ UNCHANGED <<storeVars, fileVars, scorerVars, retrainVars, threadVars>>
    \/ \E w \in 1..Len(workers) :
           WorkerFinish(w) /\ UNCHANGED <<storeVars, fileVars, scorerVars, retrainVars, threadVars>>
    \/ \E w \in 1..Len(workers) :
           _on_features_extracted(w) /\ UNCHANGED <<storeVars, fileVars, scorerVars, retrainVars, threadVars>>

SpecWorker == Init /\ [][NextWorker]_vars

\* ------------------------------------------- feedback on a listed candidate
\* the add_feedback call _record_feedback makes for the selected row:
\* c.get("features", {}) is the value under the key, which parse_and_fill
\* sets to None and _on_features_extracted to the feature dict
FeedbackCall(row, rating) ==
    LET c == candidates[row]
    IN [audio_path |-> track.audio_path, loop_start |-> c.s, loop_end |-> c.e,
        features |-> IF c.features = None THEN None ELSE c.features[1],
        rating |-> rating, pymusiclooper_score |-> c.sc \div 100,
        audio_metadata |-> None, exported |-> FALSE, export_settings |-> None,
        source |-> IF rating = 1 THEN "thumbs_up" ELSE "thumbs_down"]

\* one track with one result file of one candidate: loads, the worker's
\* thread, the finished slot, thumbs on a row, and the retrain timer
NextFeedback ==
    \/ \E target \in {f \in ResultFiles : Len(f) = 1} :
           SelectAudio("a.mp3", SampleRate, Some(target)) /\ UNCHANGED <<storeVars, fileVars, scorerVars, retrainVars, threadVars>>
    \/ \E w \in 1..Len(workers) :
           WorkerStep(w, {}) /\ UNCHANGED <<storeVars, fileVars, scorerVars, retrainVars, threadVars>>
    \/ \E w \in 1..Len(workers) :
           WorkerFinish(w) /\ UNCHANGED <<storeVars, fileVars, scorerVars, retrainVars, threadVars>>
    \/ \E w \in 1..Len(workers) :
           _on_features_extracted(w) /\ UNCHANGED <<storeVars, fileVars, scorerVars, retrainVars, threadVars>>
    \/ \E row \in 1..Min(Len(candidates), Len(list_items)), rating \in {0, 1}, now \in Times :
           _record_feedback(FeedbackCall(row, rating), now) /\ UNCHANGED <<storeVars, fileVars, extractorVars, workerVars, threadVars>>
    \/ \E fault \in {"none", "fit"} :
           _retrain_model_async(fault) /\ UNCHANGED <<storeVars, fileVars, extractorVars, workerVars, threadVars>>

SpecFeedback == Init /\ [][NextFeedback]_vars

\* ------------------------------------------------ the threads and the store
\* the slots and event handlers the event loop of the GUI thread runs
Handlers == {"select_audio", "run_analysis", "on_analysis_finished",
             "_on_features_extracted", "_record_feedback", "_retrain_model_async",
             "_show_ai_statistics"}

\* slip: the worker writes each score into the store from its own thread
StoreCalls_WorkerWrites(fn, first_use, trained) ==
    LET _ensure_ai_initialized == IF first_use /\ trained
                                  THEN <<"update_model_performance">> ELSE <<>>
    IN CASE fn = "_record_feedback" -> _ensure_ai_initialized \o <<"add_feedback">>
         [] fn \in {"select_audio", "run_analysis", "on_analysis_finished"} ->
                _ensure_ai_initialized
         [] fn = "FeatureExtractionWorker.run" -> <<"update_ai_score">>
         [] OTHER -> <<>>

\* the store mutations a function makes, in order.  _ensure_ai_initialized
\* constructs the store on first use and, through _train_model_if_needed,
\* records the performance of a model it trained (l.528-536); load_results
\* and _record_feedback call it, _record_feedback then adds the record
\* (l.821); _retrain_model_async, _on_features_extracted, _show_ai_statistics
\* and the run methods of the three QThread classes make none
StoreCalls(fn, first_use, trained) ==
    LET _ensure_ai_initialized == IF first_use /\ trained
                                  THEN <<"update_model_performance">> ELSE <<>>
    IN CASE fn = "_record_feedback" -> _ensure_ai_initialized \o <<"add_feedback">>
         [] fn \in {"select_audio", "run_analysis", "on_analysis_finished"} ->
                _ensure_ai_initialized
         [] OTHER -> <<>>

\* the event loop of the GUI thread, idle, takes an event and runs its
\* handler; the handler runs to its end before the next event is taken (the
\* nested loops of menu.exec and QMessageBox run outside the store calls).
\* cached: a result file of the track is on disk, so load_results is reached;
\* trained: _train_model_if_needed trains a model with success
Handle(fn, cached, trained) ==
    LET loads == \/ fn = "on_analysis_finished"
                 \/ fn \in {"select_audio", "run_analysis"} /\ cached
        first_use == ~ai_ready /\ (loads \/ fn = "_record_feedback")
        starts == (IF loads THEN {"feature_worker"} ELSE {})
                  \cup (IF fn = "select_audio" THEN {"wave_worker"} ELSE {})
                  \cup (IF fn = "run_analysis" /\ ~cached THEN {"analysis_worker"} ELSE {})
    IN /\ threads["gui"] = Idle
       /\ fn = "on_analysis_finished" => threads["analysis_worker"] = Idle
       /\ threads' = [threads EXCEPT !["gui"] =
              [fn |-> fn,
               calls |-> IF loads \/ fn = "_record_feedback"
                         THEN StoreCalls(fn, first_use, trained) ELSE <<>>,
               inside |-> FALSE, starts |-> starts]]
       /\ ai_ready' = (ai_ready \/ first_use)

\* thread t enters the next store mutation of its function
Enter(t) ==
    /\ threads[t].calls # <<>>
    /\ ~threads[t].inside
    /\ threads' = [threads EXCEPT ![t].inside = TRUE]
    /\ UNCHANGED ai_ready

\* the store mutation thread t is in returns
Leave(t) ==
    /\ threads[t].inside
    /\ threads' = [threads EXCEPT ![t].inside = FALSE, ![t].calls = Tail(@)]
    /\ UNCHANGED ai_ready

\* the handler of the GUI thread returns to the event loop; the QThread
\* objects it created are started and run (one thread per attribute is
\* followed: a new worker takes the place of the one it replaces)
Return ==
    LET me == threads["gui"]
    IN /\ me.fn # ""
       /\ me.calls = <<>>
       /\ threads' = [t \in Threads |->
              IF t = "gui" THEN Idle
              ELSE IF t \in me.starts
              THEN [fn |-> CASE t = "feature_worker" -> "FeatureExtractionWorker.run"
                             [] t = "analysis_worker" -> "AnalysisWorker.run"
                             [] t = "wave_worker" -> "WaveformLoader.run",
                    calls |-> StoreCalls(CASE t = "feature_worker" -> "FeatureExtractionWorker.run"
                                           [] t = "analysis_worker" -> "AnalysisWorker.run"
                                           [] t = "wave_worker" -> "WaveformLoader.run",
                                         FALSE, FALSE),
                    inside |-> FALSE, starts |-> {}]
              ELSE threads[t]]
       /\ UNCHANGED ai_ready

\* the run method of worker thread t returns
Finish(t) ==
    /\ t # "gui"
    /\ threads[t].fn # ""
    /\ threads[t].calls = <<>>
    /\ threads' = [threads EXCEPT ![t] = Idle]
    /\ UNCHANGED ai_ready

NextThreads ==
    \/ \E fn \in Handlers, cached \in BOOLEAN, trained \in BOOLEAN :
           Handle(fn, cached, trained) /\ UNCHANGED <<storeVars, fileVars, scorerVars, retrainVars, extractorVars, workerVars>>
    \/ \E t \in Threads :
           Enter(t) /\ UNCHANGED <<storeVars, fileVars, scorerVars, retrainVars, extractorVars, workerVars>>
    \/ \E t \in Threads :
           Leave(t) /\ UNCHANGED <<storeVars, fileVars, scorerVars, retrainVars, extractorVars, workerVars>>
    \/ Return /\ UNCHANGED <<storeVars, fileVars, scorerVars, retrainVars, extractorVars, workerVars>>
    \/ \E t \in Threads :
           Finish(t) /\ UNCHANGED <<storeVars, fileVars, scorerVars, retrainVars, extractorVars, workerVars>>

SpecThreads == Init /\ [][NextThreads]_vars

\* the event loop runs every timer callback that is due
SpecFeedbackFair ==
    SpecFeedback /\ WF_retrainVars(\E fault \in {"none", "fit"} : _retrain_model_async(fault))

\* ================================================================== claims
\* the stored records whose fingerprint is audio_hash, in store order
StoredWithHash(audio_hash) ==
    LET match(fb) == fb.audio_hash = audio_hash
    IN SelectSeq(Deref(feedbacks), match)

\* the references a list holds
Refs(fbs) == {fbs[i] : i \in 1..Len(fbs)}

\* a record with this id is stored
Stored(feedback_id) == \E i \in 1..Len(feedbacks) : Rec(i).id = feedback_id

UniqueIds == \A i, j \in 1..Len(feedbacks) : i # j => Rec(i).id # Rec(j).id

\* the step is a call of op that returned TRUE and changed the store
Succeeded(op) ==
    /\ ret'.op = op
    /\ ret'.result = TRUE
    /\ <<feedbacks, heap>> # <<feedbacks', heap'>>

\* C1: after any sequence of add_feedback and delete_feedback calls (any
\* ratings, any ids), positive_count + negative_count = total_feedbacks and
\* total_feedbacks = number of stored records.
C1_StoreInvariant ==
    /\ statistics.positive_count + statistics.negative_count = statistics.total_feedbacks
    /\ statistics.total_feedbacks = Len(feedbacks)

\* a delete_feedback has removed a record and a record with a rating outside
\* {0, 1} is stored
C1_Witness ==
    /\ ret.op = "delete_feedback"
    /\ ret.result = TRUE
    /\ \E i \in 1..Len(feedbacks) : Rec(i).user_feedback.rating = 2

\* C2: no two stored records share an id, and every id add_feedback returns is
\* strictly greater than every id an earlier add_feedback returned.
C2_UniqueMonotonicIds ==
    [][/\ UniqueIds'
       /\ Len(feedbacks') > Len(feedbacks) => ret'.result > hist.max_id]_vars

\* C3: after delete_feedback(id) returned true, get_by_id(id) is None.
C3_DeletedIdNotFound ==
    (ret.op = "delete_feedback" /\ ret.result = TRUE) => get_by_id(ret.feedback_id) = None

\* C4: delete_feedback(id) of a stored id removes one record, decreases
\* total_feedbacks by 1 and the counter matching the removed record's rating by
\* 1, and deleting the id add_feedback has just returned restores the three
\* counters to their values before that add_feedback.
C4_DeleteUndoesAdd ==
    [][/\ Succeeded("delete_feedback") =>
            LET gone == Refs(feedbacks) \ Refs(feedbacks')
                removed == heap[CHOOSE o \in gone : TRUE]
                pos == IF removed.user_feedback.rating = 1 THEN 1 ELSE 0
            IN /\ Cardinality(gone) = 1
               /\ removed.id = ret'.feedback_id
               /\ Len(feedbacks') = Len(feedbacks) - 1
               /\ statistics'.total_feedbacks = statistics.total_feedbacks - 1
               /\ statistics'.positive_count = statistics.positive_count - pos
               /\ statistics'.negative_count = statistics.negative_count - (1 - pos)
       /\ (/\ ret.op = "add_feedback"
           /\ Succeeded("delete_feedback")
           /\ ret'.feedback_id = ret.result) => Counters(statistics') = before]_vars

\* C5: on a fresh store with no deletions the k-th add_feedback returns k, and
\* after two adds with rating 1 get_statistics reports total 2, positive 2,
\* negative 0.
C5_FreshStoreIds ==
    /\ (~hist.deleted /\ ret.op = "add_feedback") => ret.result = hist.adds
    /\ (/\ ~hist.deleted
        /\ hist.adds = 2
        /\ \A i \in 1..Len(feedbacks) : Rec(i).user_feedback.rating = 1)
       => Counters(DictCopy(statistics)) = <<2, 2, 0>>

\* the second add_feedback of a fresh store has returned, both ratings are 1
C5_Witness ==
    /\ ~hist.deleted
    /\ hist.adds = 2
    /\ ret.op = "add_feedback"
    /\ ret.result = 2
    /\ \A i \in 1..Len(feedbacks) : Rec(i).user_feedback.rating = 1

\* C6: update_ai_score, update_export_info and delete_feedback called with an
\* id that is not stored return false and leave the records, the statistics
\* and the persisted document unchanged.
C6_UnknownIdNoEffect ==
    [][(/\ ret'.op \in {"update_ai_score", "update_export_info", "delete_feedback"}
        /\ ~Stored(ret'.feedback_id))
       => /\ ret'.result = FALSE
          /\ UNCHANGED <<feedbacks, heap, statistics, perfHeap, disk>>]_vars

\* update_export_info has returned false on a store that holds records and has
\* a persisted document
C6_Witness ==
    /\ ret.op = "update_export_info"
    /\ ret.result = FALSE
    /\ Len(feedbacks) > 0
    /\ disk.exists

\* C7: a successful update_export_info(id, settings) sets exported, adds 1 to
\* the record's export_count and to total_export_operations, and adds 1 to
\* exported_count exactly when the record's export_count was 0 before.
C7_ExportCounting ==
    [][Succeeded("update_export_info") =>
           LET changed == {x \in Oids : heap'[x] # heap[x]}
               o == CHOOSE x \in changed : TRUE
               was == heap[o].export_info.export_count
           IN /\ Cardinality(changed) = 1
              /\ o \in Refs(feedbacks)
              /\ heap[o].id = ret'.feedback_id
              /\ feedbacks' = feedbacks
              /\ heap'[o].export_info.exported = TRUE
              /\ heap'[o].export_info.export_count = was + 1
              /\ statistics'.total_export_operations =
                     statistics.total_export_operations + 1
              /\ statistics'.exported_count =
                     statistics.exported_count + (IF was = 0 THEN 1 ELSE 0)]_vars

\* a record created with exported=true has been exported again and is counted
\* once in exported_count
C7_Witness ==
    /\ ret.op = "update_export_info"
    /\ ret.result = TRUE
    /\ statistics.exported_count = 1
    /\ \E i \in 1..Len(feedbacks) :
           /\ Rec(i).id = ret.feedback_id
           /\ Rec(i).user_feedback.source = "export"
           /\ Rec(i).export_info.export_count = 2

\* C8: in every state, get_by_audio(path) returns exactly the stored records
\* (with their current field values) whose fingerprint is that of path,
\* whatever get_by_audio calls filled the cache before.
C8_NoStaleLookup ==
    /\ \A p \in AudioPaths : get_by_audio(p) = StoredWithHash(_hash_file(p))
    /\ ret.op = "get_by_audio" => ret.result = StoredWithHash(ret.audio_hash)

\* a cached, non-empty lookup result is in place and update_ai_score has just
\* changed a record it holds
C8_Witness ==
    /\ ret.op = "update_ai_score"
    /\ ret.result = TRUE
    /\ \E h \in AudioHashes :
           /\ cache[h] # None
           /\ \E i \in 1..Len(cache[h][1]) :
                  /\ heap[cache[h][1][i]].id = ret.feedback_id
                  /\ heap[cache[h][1][i]].scores.ai_predicted # None

\* C9: get_good_loops(min_ai_score) returns a list holding exactly the records
\* with rating 1 and ai_score >= min_ai_score, a record without ai_score being
\* included only when min_ai_score <= 0.
C9_GoodLoops ==
    \A m \in MinAiScores :
        LET wanted(fb) ==
                /\ fb.user_feedback.rating = 1
                /\ IF fb.scores.ai_predicted = None THEN m <= 0
                   ELSE fb.scores.ai_predicted[1] >= m
            got == get_good_loops(m)
        IN /\ got.raised = ""
           /\ got.value = SelectSeq(Deref(feedbacks), wanted)

\* C10: no assignment to the value get_statistics returned, at any nesting
\* depth, changes the store's statistics.
C10_IndependentCopy ==
    [][ret'.op = "mutate_returned" =>
           DeepStatistics(statistics', perfHeap') = DeepStatistics(statistics, perfHeap)]_vars

\* the last call was a mutating call that returned: add_feedback,
\* update_model_performance, or a successful update or delete
MutatingCallReturned ==
    \/ ret.op \in {"add_feedback", "update_model_performance"}
    \/ /\ ret.op \in {"update_ai_score", "update_export_info", "delete_feedback"}
       /\ ret.result = TRUE

\* the in-memory store as a value: records in order, statistics, metadata
InMemoryStore ==
    [version |-> "1.0", created_at |-> 1, app_version |-> "2.0.0",
     feedbacks |-> [i \in 1..Len(feedbacks) |-> Rec(i)],
     statistics |-> [statistics EXCEPT !.model_performance =
                         IF @ = None THEN None ELSE Some(perfHeap[@[1]])],
     metadata |-> [system_info |-> "system"]]

\* C11: after every mutating call that returns (add_feedback, a successful
\* update_ai_score, update_export_info or delete_feedback,
\* update_model_performance) the persisted document is the serialisation of
\* the in-memory store: records, statistics and metadata.
C11_WriteThrough ==
    MutatingCallReturned =>
        /\ disk.exists
        /\ disk.text = json_dumps(InMemoryStore)

\* a successful update_export_info has returned and the counters it raised
\* are in memory
C11_Witness ==
    /\ ret.op = "update_export_info"
    /\ ret.result = TRUE
    /\ statistics.exported_count > 0
    /\ Len(feedbacks) > 0

\* C13: after any mutating call that returned, a store constructed on the
\* persisted file holds the same records (every field, same order) and the
\* same statistics as the store that wrote it.
C13_RoundTrip ==
    MutatingCallReturned =>
        LET loaded == _load(disk)
        IN /\ loaded.raised = ""
           /\ loaded.shape = "store"
           /\ loaded.data.feedbacks = InMemoryStore.feedbacks
           /\ loaded.data.statistics = InMemoryStore.statistics

\* two different records are stored and persisted after a successful
\* update_ai_score
C13_Witness ==
    /\ ret.op = "update_ai_score"
    /\ ret.result = TRUE
    /\ Len(feedbacks) = 2
    /\ Rec(1) # Rec(2)
    /\ disk.exists
    /\ Len(disk.text.members.feedbacks.items) = 2

\* the file holds a whole document written by save(), or does not exist yet
CompleteDocument(d) == ~d.exists \/ d.text.j = "object"

\* C12: if the process stops at any point during a save, the file holds
\* either the complete document it held before the save or the complete new
\* document, never a partial or empty one.
C12_AtomicSave ==
    (proc.state = "stopped" /\ proc.saving # None) =>
        /\ disk \in {proc.saving[1].old, proc.saving[1].new}
        /\ CompleteDocument(disk)

\* the document found at construction was unreadable or corrupt
FoundCorrupt ==
    /\ ret.op = "__init__"
    /\ ret.found \in {"undecodable", "garbage", "truncated", "array"}

\* C14: constructing the store on an existing document that is not
\* decodable, not parseable or not of the expected structure never fails and
\* gives a fresh empty store: no records, all counters zero.
C14_CorruptLoadGivesEmptyStore ==
    FoundCorrupt =>
        /\ ret.raised = ""
        /\ proc.state = "running"
        /\ proc.shape = "store"
        /\ feedbacks = <<>>
        /\ statistics = _create_empty_data_statistics

\* C15: the corrupt document the store first reset from is kept: its content
\* is in the backup file, whatever saves and corrupt loads came later.
C15_BackupKept ==
    proc.reset_from # None => backup = File(proc.reset_from[1])

\* C16: train on fewer than 10 samples returns False and changes nothing:
\* is_trained, the in-memory model and the model file stay as they were, and
\* predict answers every feature vector as it did before the call.
C16_RefusedTrainChangesNothing ==
    [][(mret'.op = "train" /\ Len(samples) < 10) =>
           /\ mret'.result = FALSE
           /\ is_trained' = is_trained
           /\ model' = model
           /\ model_file' = model_file
           /\ \A f \in FeatureVectors :
                  predict(is_trained', model', f) = predict(is_trained, model, f)]_vars

\* a scorer trained earlier has refused a train call on 9 samples and still
\* holds its fitted model and its model file
C16_Witness ==
    /\ mret.op = "train"
    /\ mret.result = FALSE
    /\ Len(samples) = 9
    /\ is_trained
    /\ model.fitted
    /\ model_file.exists

\* C17: a train call (whose fit and file write do not fail) on the training
\* data of a store with 9 records returns False; on a store with 10 records
\* it returns True, the scorer is trained, and the model file holds the fitted
\* model.
C17_GateAtTen ==
    (mret.op = "train" /\ mret.fault = "none") =>
        /\ Len(samples) = 9 => mret.result = FALSE
        /\ Len(samples) = 10 =>
               /\ mret.result = TRUE
               /\ is_trained
               /\ model.fitted
               /\ model_file = [exists |-> TRUE, text |-> [pickled |-> model]]

\* the tenth record is in the store and train has returned True
C17_Witness ==
    /\ mret.op = "train"
    /\ mret.result = TRUE
    /\ Len(samples) = 10
    /\ is_trained

\* C18: once is_trained is true it stays true over every train (successful,
\* refused or failing), predict, evaluate and get_feature_importance call on
\* that scorer instance.
C18_StaysTrained ==
    [][(is_trained /\ mret'.op \in {"train", "predict", "evaluate",
                                     "get_feature_importance"}) => is_trained']_vars

\* a train call whose fit raised has returned on a trained scorer
C18_Witness ==
    /\ mret.op = "train"
    /\ mret.fault = "fit"
    /\ mret.result = FALSE
    /\ is_trained

\* C19: predict returns the (None, None) pair exactly when the scorer is not
\* trained; a trained scorer, whatever accepted data it was trained on,
\* returns a numeric pair.
C19_NullPairIffUntrained ==
    mret.op = "predict" =>
        ((mret.result.score = None /\ mret.result.confidence = None) <=> ~is_trained)

\* the probability the model gives the positive class (rating 1) for the
\* vector of the last predict call, 0 if the model has no such class
PositiveProbability ==
    LET row == model.proba[mret.features]
        at == {i \in 1..Len(model.classes) : model.classes[i] = 1}
    IN IF at = {} THEN 0 ELSE row[CHOOSE i \in at : TRUE]

\* C20: a non-null pair returned by predict has score = positive-class
\* probability * 100, within [0, 100], and confidence = the largest class
\* probability, within [0, 1] (probabilities in units of 1/ProbaSteps).
C20_ScoreAndConfidence ==
    (mret.op = "predict" /\ mret.result.score # None) =>
        LET row == model.proba[mret.features]
            score == mret.result.score[1]
            conf == mret.result.confidence[1]
        IN /\ score = PositiveProbability * 100
           /\ 0 <= score /\ score <= 100 * ProbaSteps
           /\ \A i \in 1..Len(row) : row[i] <= conf
           /\ \E i \in 1..Len(row) : row[i] = conf
           /\ 0 <= conf /\ conf <= ProbaSteps

\* predict has returned a pair from a model of two classes that gives the
\* positive class less than the other
C20_Witness ==
    /\ mret.op = "predict"
    /\ mret.result.score # None
    /\ Len(model.classes) = 2
    /\ mret.result.score[1] < mret.result.confidence[1] * 100

\* C21: evaluate returns an error result whenever the scorer is untrained or
\* has fewer than 5 samples; otherwise it cross-validates with min(5, |X|)
\* folds and returns accuracy, precision, recall and n = |X|; in every case
\* the model and is_trained are left as they were.
C21_Evaluate ==
    [][mret'.op = "evaluate" =>
           /\ model' = model
           /\ is_trained' = is_trained
           /\ IF ~is_trained \/ Len(samples) < 5
              THEN mret'.result.error # ""
              ELSE /\ mret'.result.error = ""
                   /\ {"accuracy", "precision", "recall"} \subseteq mret'.result.metrics
                   /\ mret'.result.cv = 5
                   /\ mret'.result.n_samples = Len(samples)]_vars

\* the model file holds a pickle that loads
Loadable == model_file.exists /\ "pickled" \in DOMAIN model_file.text

\* C22: a scorer constructed on a model file that cannot be loaded is
\* constructed all the same, untrained, with the fresh classifier, and predict
\* gives the null pair; a scorer is trained after construction only if the
\* file was loaded, and then holds the model of the file.
C22_LoadFallsBack ==
    mret.op = "__init__" =>
        /\ ~Loadable =>
               /\ ~is_trained
               /\ model = [fitted |-> FALSE]
               /\ \A f \in FeatureVectors :
                      predict(is_trained, model, f) = [score |-> None, confidence |-> None]
        /\ is_trained => (Loadable /\ model = model_file.text.pickled)

\* a scorer has been constructed on a model file that is no pickle
C22_Witness ==
    /\ mret.op = "__init__"
    /\ model_file.exists
    /\ ~Loadable
    /\ ~is_trained

\* C23: every predict call of a trained scorer answers from a complete model,
\* the one trained before or the one trained last, never from a classifier a
\* retrain left half replaced, also when that retrain failed part-way.
C23_AtomicSwap ==
    (mret.op = "predict" /\ is_trained) => model.estimators = "all"

\* C25: an extract call with use_cache for a key that an earlier call with
\* use_cache already returned for gives the same vector again, decodes no
\* audio, enters no calculation and leaves the cache entry of the key as it is.
C25_CacheIdempotent ==
    [][(eret'.op = "extract" /\ eret'.use_cache /\ first[eret'.key] # None) =>
           /\ eret'.raised = ""
           /\ eret'.result = first[eret'.key]
           /\ work' = work
           /\ fcache' = fcache]_vars

\* the second call for a key was made for the track of the same name in
\* another directory and was answered with the vector of the first, after
\* one decode in all
C25_Witness ==
    /\ eret.op = "extract"
    /\ eret.use_cache
    /\ eret.audio_path = "dir/a.mp3"
    /\ ~eret.computed
    /\ eret.result = Some([name \in FeatureNames |-> Analysis("a.mp3", name)])
    /\ first[eret.key] = eret.result
    /\ work = [decodes |-> 1, calcs |-> 4]

\* C26: when something fails inside feature calculations of an extract call on
\* decodable audio, the call still returns its vector, with 0.5 for each
\* calculation that failed.
C26_LocalFallback ==
    (eret.op = "extract" /\ eret.computed /\ eret.failed # {}) =>
        /\ eret.raised = ""
        /\ eret.result # None
        /\ \A name \in eret.failed : eret.result[1][name] = 500

\* C24: the feedback events that arrive while a retrain is pending are
\* answered by at most one train call together.
C24_Coalesced == burst.trains <= 1

\* C27: a worker whose loop is over holds exactly one (index, features) pair
\* per candidate of its list, the indices in candidate order, whatever extract
\* raised on the way; while it runs it holds one pair per candidate passed.
C27_OnePairPerCandidate ==
    \A w \in 1..Len(workers) :
        /\ Len(workers[w].results) = workers[w].pos
        /\ \A i \in 1..Len(workers[w].results) : workers[w].results[i][1] = i - 1
        /\ workers[w].state # "running" =>
               Len(workers[w].results) = Len(workers[w].candidates)

\* a worker has emitted its results for a list of two candidates after
\* extract raised on the first of them
C27_Witness ==
    \E w \in 1..Len(workers) :
        /\ workers[w].state = "emitted"
        /\ Len(workers[w].candidates) = 2
        /\ workers[w].causes[1] \in {"decode", "calculation"}
        /\ workers[w].results[2][1] = 1

\* C28: the features the orchestrator receives for a candidate whose audio
\* could not be decoded differ from those it receives for any candidate whose
\* audio was decoded (calculations failed, or neutral values computed).
C28_DecodeFailureDistinct ==
    \A w1, w2 \in 1..Len(workers) :
        \A i \in 1..Len(workers[w1].results), j \in 1..Len(workers[w2].results) :
            (workers[w1].causes[i] = "decode" /\ workers[w2].causes[j] # "decode") =>
                workers[w1].results[i][2] # workers[w2].results[j][2]

\* C29: a worker whose load was abandoned (a later load has started its own
\* worker) extracts no further candidate.
C29_AbandonedWorkerStops ==
    [][\A w \in 1..Len(workers) :
           w < Len(workers) => workers'[w].pos = workers[w].pos]_vars

\* the line has at least 5 fields, integer start and end, numeric confidence
WellFormed(p) ==
    /\ Len(p) >= 5
    /\ p[1].t = "int"
    /\ p[2].t = "int"
    /\ p[5].t \in {"int", "dec"}

\* C30: after a result file is loaded the candidates are those of its
\* well-formed lines, one each in file order, and the displayed list is as
\* long as the candidate list.
C30_ParserSkipsMalformed ==
    oret.op = "load_results" =>
        LET good == SelectSeq(oret.target, WellFormed)
        IN /\ Len(candidates) = Len(good)
           /\ \A i \in 1..Len(good) :
                  candidates[i].s = good[i][1].v /\ candidates[i].e = good[i][2].v
           /\ Len(list_items) = Len(candidates)

\* the sum of export_count over a sequence of records
RECURSIVE SumExportCount(_)
SumExportCount(recs) ==
    IF recs = <<>> THEN 0
    ELSE Head(recs).export_info.export_count + SumExportCount(Tail(recs))

\* the export counters are what a recomputation over the records gives
ExportCountersRecomputed ==
    /\ statistics.exported_count =
           Cardinality({i \in 1..Len(feedbacks) : Rec(i).export_info.exported})
    /\ statistics.total_export_operations = SumExportCount(Deref(feedbacks))

\* C35: add_feedback, update_export_info and delete_feedback keep
\* exported_count equal to the number of stored records with exported = true
\* and total_export_operations equal to the sum of export_count over the
\* stored records.
C35_ExportCounters ==
    [][(/\ ret'.op \in {"add_feedback", "update_export_info", "delete_feedback"}
        /\ ExportCountersRecomputed) => ExportCountersRecomputed']_vars

\* the records at the positions of the store that the step changed
ChangedRecords == {i \in 1..Len(feedbacks) : heap'[feedbacks[i]] # Rec(i)}

\* C36: update_ai_score(id, ...) changes only ai_score, ai_confidence and
\* updated_at, update_export_info(id, ...) only the export fields and
\* updated_at, in both cases of one record with that id; no other record, not
\* the list of records and not total_feedbacks, positive_count or
\* negative_count.
C36_OnlyOwnRecord ==
    [][ret'.op \in {"update_ai_score", "update_export_info"} =>
           /\ feedbacks' = feedbacks
           /\ Counters(statistics') = Counters(statistics)
           /\ Cardinality(ChangedRecords) <= 1
           /\ \A i \in ChangedRecords :
                  LET old == Rec(i)
                      new == heap'[feedbacks[i]]
                  IN /\ old.id = ret'.feedback_id
                     /\ new.timestamps.created_at = old.timestamps.created_at
                     /\ \A f \in DOMAIN old \ {"scores", "export_info", "timestamps"} :
                            new[f] = old[f]
                     /\ IF ret'.op = "update_ai_score"
                        THEN /\ new.export_info = old.export_info
                             /\ new.scores.pymusiclooper = old.scores.pymusiclooper
                        ELSE new.scores = old.scores]_vars

\* update_ai_score has set the prediction of one of two stored records and
\* the other one, with another id, has none
C36_Witness ==
    /\ ret.op = "update_ai_score"
    /\ ret.result = TRUE
    /\ \E i, j \in 1..Len(feedbacks) :
           /\ Rec(i).id = ret.feedback_id
           /\ Rec(i).scores.ai_predicted # None
           /\ Rec(j).id # ret.feedback_id
           /\ Rec(j).scores.ai_predicted = None

\* the sample rate add_feedback converts with: 44100 when no metadata is given
RateOf(fb) ==
    IF fb.audio_metadata = [duration_ms |-> 0, sample_rate |-> 44100, channels |-> 2,
                            bitrate_kbps |-> None]
    THEN 44100
    ELSE fb.audio_metadata.sample_rate

\* start_ms and end_ms of a record are the floors of the sample positions
BoundaryFloors(fb) ==
    LET lc == fb.loop_candidate
    IN /\ lc.start_time_ms = (lc.start_sample * 1000) \div RateOf(fb)
       /\ lc.end_time_ms = (lc.end_sample * 1000) \div RateOf(fb)

\* C34 as stated: every record's start_ms, end_ms and duration_ms are the
\* floors of start_sample*1000/sample_rate, end_sample*1000/sample_rate and
\* (end_sample - start_sample)*1000/sample_rate.
C34_TimingFloors ==
    \A i \in 1..Len(feedbacks) :
        /\ BoundaryFloors(Rec(i))
        /\ Rec(i).loop_candidate.loop_duration_ms =
               ((Rec(i).loop_candidate.end_sample - Rec(i).loop_candidate.start_sample) * 1000)
                   \div RateOf(Rec(i))

\* C34 amended: start_ms and end_ms are those floors and duration_ms is
\* end_ms - start_ms, which is the floor of the duration or one more.
C34_TimingFloorsAmended ==
    \A i \in 1..Len(feedbacks) :
        LET lc == Rec(i).loop_candidate
            floor_d == ((lc.end_sample - lc.start_sample) * 1000) \div RateOf(Rec(i))
        IN /\ BoundaryFloors(Rec(i))
           /\ lc.loop_duration_ms = lc.end_time_ms - lc.start_time_ms
           /\ lc.loop_duration_ms \in {floor_d, floor_d + 1}

\* a record added without metadata whose duration_ms is one more than the
\* floor of its duration
C34_Witness ==
    \E i \in 1..Len(feedbacks) :
        /\ RateOf(Rec(i)) = 44100
        /\ Rec(i).loop_candidate.start_sample = 1
        /\ Rec(i).loop_candidate.end_sample = 45
        /\ Rec(i).loop_candidate.loop_duration_ms = 1

\* the step is a mutating call that save() raised in
SaveRaised ==
    ret' \in {[op |-> "add_feedback", raised |-> "OSError"],
              [op |-> "delete_feedback", raised |-> "OSError"]}

\* C38: an add_feedback or delete_feedback in which save raises leaves the
\* records and the counters as they were, and get_by_audio afterwards gives
\* the stored records of the track.
C38_FailedSaveChangesNothing ==
    [][SaveRaised =>
           /\ Deref(feedbacks)' = Deref(feedbacks)
           /\ statistics' = statistics
           /\ \A p \in AudioPaths :
                  get_by_audio(p)' = StoredWithHash(_hash_file(p))']_vars

\* the samples of a buffer of len samples that lie in [lo, hi)
SamplesIn(len, lo, hi) ==
    LET a == IF lo < 0 THEN 0 ELSE lo
        b == IF hi > len THEN len ELSE hi
    IN IF b > a THEN b - a ELSE 0

\* the samples of the 200 ms windows around a call's two loop boundaries
WindowAt(call, pos) ==
    SamplesIn(TrackLength(call.sample_rate), pos - call.sample_rate \div 5,
              pos + call.sample_rate \div 5)

\* C32: spectral_similarity is exactly 0.5 (500 thousandths) whenever one of
\* the two boundary windows holds fewer than 512 samples, and
\* tempo_consistency is exactly 0.5 whenever the loop span
\* [loop_start, loop_end) holds fewer than 2 * sample_rate samples of the buffer
C32_BoundaryDefaults ==
    eret.op = "_calc" =>
        /\ (WindowAt(eret.call, eret.call.loop_start) < 512
             \/ WindowAt(eret.call, eret.call.loop_end) < 512)
                => eret.spectral_similarity = 500
        /\ SamplesIn(TrackLength(eret.call.sample_rate), eret.call.loop_start,
                     eret.call.loop_end) < 2 * eret.call.sample_rate
                => eret.tempo_consistency = 500

\* a call in which nothing raises, whose start window is full (512 samples at
\* 1280 Hz) and whose end window is cut short by the end of the buffer, and
\* whose loop is not empty and shorter than 2 s
C32_Witness ==
    /\ eret.op = "_calc"
    /\ eret.call.faults = {}
    /\ eret.call.sample_rate = 1280
    /\ WindowAt(eret.call, eret.call.loop_start) = 512
    /\ WindowAt(eret.call, eret.call.loop_end) \in 1..511
    /\ eret.call.loop_end - eret.call.loop_start \in 1..(2 * eret.call.sample_rate - 1)
    /\ eret.spectral_similarity = 500
    /\ eret.tempo_consistency = 500

\* C37: the results of a worker are applied only to the candidate list the
\* worker was started with: when the finished signal of a worker that is not
\* the one of the latest load is handled, the candidates of the latest load
\* are neither written nor indexed (nothing changes, nothing raises)
C37_OwnListOnly ==
    [][\A w \in 1..Len(workers) :
           (w < Len(workers) /\ workers[w].state = "emitted"
            /\ workers'[w].state = "delivered")
               => /\ candidates' = candidates
                  /\ list_items' = list_items
                  /\ oret'.raised = ""]_vars

\* C40: every record the orchestrator writes carries a feature mapping, never
\* null, also when the feedback is given before the extraction of the
\* candidate has finished, so that get_training_data succeeds
C40_FeaturesNeverNull ==
    /\ \A i \in 1..Len(samples) :
           DOMAIN samples[i].features =
               {"amplitude_smoothness", "spectral_similarity",
                "tempo_consistency", "loudness_matching"}
    /\ get_training_data(samples).raised = ""

\* C33: get_training_data returns parallel sequences X and y, one entry per
\* stored record in store order: row i is [external score, amplitude_smoothness,
\* spectral_similarity, tempo_consistency, loudness_matching] of record i and
\* y[i] its rating, in every store state the application reaches
C33_TrainingDataParallel ==
    LET data == get_training_data(samples)
    IN /\ data.raised = ""
       /\ Len(data.X) = Len(samples)
       /\ Len(data.y) = Len(samples)
       /\ \A i \in 1..Len(samples) :
              /\ data.X[i] = <<samples[i].scores.pymusiclooper,
                               samples[i].features.amplitude_smoothness,
                               samples[i].features.spectral_similarity,
                               samples[i].features.tempo_consistency,
                               samples[i].features.loudness_matching>>
              /\ data.y[i] = samples[i].user_feedback.rating

\* C39: every feedback recorded through the orchestrator reaches the model:
\* once _record_feedback has added a record and the store holds at least 10
\* records, a train call on training data that includes the record eventually
\* runs; and a retrain callback never calls train below 10 records
C39_FeedbackReachesModel ==
    /\ [][(mret'.op = "train" /\ timers' < timers)
              => Len(samples) >= MIN_TRAINING_SAMPLES]_vars
    /\ \A n \in MIN_TRAINING_SAMPLES..MaxSamples :
           (Len(samples) = n /\ mret.op = "add_feedback" /\ timers > 0)
               ~> (mret.op = "train" /\ Len(samples) >= n)

\* C31: the store has one writer at a time: never are two threads inside
\* add_feedback, update_ai_score, update_export_info, delete_feedback or
\* update_model_performance at the same time
C31_SingleWriter ==
    Cardinality({t \in Threads : threads[t].inside}) <= 1

\* the GUI thread is inside add_feedback while the feature worker, the
\* analysis worker and the waveform loader are all running
C31_Witness ==
    /\ threads["gui"].inside
    /\ Head(threads["gui"].calls) = "add_feedback"
    /\ \A t \in Threads \ {"gui"} : threads[t].fn # ""
====
